---- MODULE Spec2Model ----
(***************************************************************************)
(* A model of devlogd's Chrome DevTools Protocol session                   *)
(* (src/src/devlogd/core/cdp_client.py, class CDPClient): the connection   *)
(* lifecycle, the correlation of command replies with pending requests,    *)
(* the event queue behind stream_events and the command timeout.           *)
(*                                                                         *)
(* asyncio runs one coroutine at a time and switches only at an await, so  *)
(* each action is the code between two suspension points of one coroutine. *)
(* The remote end of a channel is the environment: it may deliver any      *)
(* frame of RawFrames at any time and may close the channel.               *)
(***************************************************************************)
EXTENDS Integers, Sequences, FiniteSets, TLC

(***************************************************************************)
(* Bounds of the model.                                                    *)
(***************************************************************************)
\* send_command calls made on the session
MaxCalls == 2
\* frames read from the channels by the receive loops
MaxFrames == 3
\* connect() calls made on the session
MaxConnects == 2
\* disconnect() calls completed since the last connect()
MaxDisconnects == 2
\* time units that pass in one step of the clock
TimeStep == 30

(***************************************************************************)
(* Program constants.                                                      *)
(***************************************************************************)
\* asyncio.wait_for(future, timeout=30.0)
COMMAND_TIMEOUT == 30
\* err.get("code", -1)
DEFAULT_ERROR_CODE == -1
\* self._message_id = 0
INITIAL_MESSAGE_ID == 0
\* err.get("message", "")
DEFAULT_ERROR_MESSAGE == ""
\* message.get("result", {})
EMPTY_MAP == "{}"

None == 0
Targets == {"page-1"}
NoTarget == "None"

(***************************************************************************)
(* Frames on the channel.  A frame is either text that json.loads rejects  *)
(* (kind "garbage") or a JSON object (kind "json") with optional keys id,  *)
(* error, result and method.  err is "absent" (no error key), "null" (the  *)
(* key holds a value that is no object) or "object"; an error object has   *)
(* optional keys code and message.  seq is the arrival number of an event  *)
(* frame: the number of frames read up to and including it.                *)
(***************************************************************************)
Frame(kind, hasId, id, err, hasCode, code, hasMessage, message, hasResult, result, method) ==
    [kind |-> kind, hasId |-> hasId, id |-> id, err |-> err,
     hasCode |-> hasCode, code |-> code, hasMessage |-> hasMessage, message |-> message,
     hasResult |-> hasResult, result |-> result, method |-> method,
     seq |-> 0]

NoFrame == Frame("none", FALSE, 0, "absent", FALSE, 0, FALSE, "", FALSE, "", "")
Garbage == Frame("garbage", FALSE, 0, "absent", FALSE, 0, FALSE, "", FALSE, "", "")
Event(method) == Frame("json", FALSE, 0, "absent", FALSE, 0, FALSE, "", FALSE, "", method)
ResultReply(id, result) == Frame("json", TRUE, id, "absent", FALSE, 0, FALSE, "", TRUE, result, "")
EmptyReply(id) == Frame("json", TRUE, id, "absent", FALSE, 0, FALSE, "", FALSE, "", "")
ErrorReply(id, code, message) == Frame("json", TRUE, id, "object", TRUE, code, TRUE, message, FALSE, "", "")
BareErrorReply(id) == Frame("json", TRUE, id, "object", FALSE, 0, FALSE, "", FALSE, "", "")
NullErrorReply(id) == Frame("json", TRUE, id, "null", FALSE, 0, FALSE, "", FALSE, "", "")

EventMethods == {"Runtime.consoleAPICalled"}
ReplyIds == 1..MaxCalls

RawFrames ==
    {Garbage}
    \cup {Event(m) : m \in EventMethods}
    \cup {ResultReply(i, "value") : i \in ReplyIds}
    \cup {EmptyReply(i) : i \in ReplyIds}
    \cup {ErrorReply(i, -32000, "boom") : i \in ReplyIds}
    \cup {BareErrorReply(i) : i \in ReplyIds}
    \cup {NullErrorReply(i) : i \in ReplyIds}

Stamp(f, n) == [f EXCEPT !.seq = n]

Header(f) == [kind |-> f.kind, hasId |-> f.hasId, id |-> f.id, err |-> f.err]

(***************************************************************************)
(* Futures.  state is "pending", "result" (set_result), "exception"        *)
(* (set_exception with a CDPProtocolError) or "cancelled" (wait_for's      *)
(* timer); from is the frame that completed the future.                    *)
(***************************************************************************)
PendingFuture == [state |-> "pending", value |-> "", code |-> 0, message |-> "", from |-> NoFrame]

Done(fut) == fut.state # "pending"

VARIABLES
    ws,                \* self._ws: the channel, or None
    recv_task,         \* self._recv_task: the receive task, or None
    current_target,    \* self._current_target
    message_id,        \* self._message_id
    pending_commands,  \* self._pending_commands: request id -> call owning the future
    event_queue,       \* self._event_queue
    calls,             \* the send_command calls, in the order they were made
    chan,              \* per channel: "none", "open" or "closed"
    recv,              \* per receive task: "none", "running", "exited", "cancelled"
    dpc,               \* where the owner's disconnect() stands
    nconn,             \* connect() calls made
    disconnects,       \* disconnect() calls completed since the last connect()
    nread,             \* frames read by the receive loops
    lastRead,          \* of the frame read last: its kind, its id and error keys
    yielded,           \* the events stream_events has yielded, in order
    arg,               \* the arguments of the operation under way outside a session
    ret,               \* what that operation returned or raised
    wire,              \* the JSON text to_ndjson made of a returned LogEvent, if any
    restored,          \* the LogEvent model_validate_json made of that text, if any
    opts,              \* the arguments of the stream under way (stream_network,
                       \* stream_watch, stream_logs), or the iterators started
    pending_requests,  \* stream_network: request id -> what the request recorded
    consumed,          \* the events the stream has taken from stream_events
    emitted,           \* the events the stream has yielded, in order
    net_pc             \* where the stream stands: "off", "next", "yielded" (in
                       \* line 358), "raised", "collecting", "done"

vars == <<ws, recv_task, current_target, message_id, pending_commands, event_queue,
          calls, chan, recv, dpc, nconn, disconnects, nread, lastRead, yielded>>

\* the fields of CDPClient
session == <<ws, recv_task, current_target, message_id, pending_commands, event_queue>>

\* the state of the operations that run outside a connected session
network == <<opts, pending_requests, consumed, emitted, net_pc>>
offline == <<arg, ret, wire, restored>>
aside == <<offline, network>>

Channels == 1..MaxConnects
EmptyMap == <<>>

\* no operation outside the session is under way
CallIdle ==
    /\ arg = "idle"
    /\ ret = "idle"
    /\ wire = <<>>
    /\ restored = <<>>

\* stream_network has not been called
NetworkIdle ==
    /\ opts = "idle"
    /\ pending_requests = EmptyMap
    /\ consumed = <<>>
    /\ emitted = <<>>
    /\ net_pc = "off"

AsideIdle == CallIdle /\ NetworkIdle

\* CDPClient.__init__
SessionIdle ==
    /\ ws = None
    /\ recv_task = None
    /\ current_target = NoTarget
    /\ message_id = INITIAL_MESSAGE_ID
    /\ pending_commands = EmptyMap
    /\ event_queue = <<>>
    /\ calls = <<>>
    /\ chan = [c \in Channels |-> "none"]
    /\ recv = [c \in Channels |-> "none"]
    /\ dpc = "idle"
    /\ nconn = 0
    /\ disconnects = 0
    /\ nread = 0
    /\ lastRead = Header(NoFrame)
    /\ yielded = <<>>

Init ==
    /\ SessionIdle
    /\ AsideIdle

(***************************************************************************)
(* The pending table (a dict) and the event queue (an asyncio.Queue).      *)
(***************************************************************************)
MapPut(p, k, v) == [x \in (DOMAIN p) \cup {k} |-> IF x = k THEN v ELSE p[x]]
MapRemove(p, k) == [x \in (DOMAIN p) \ {k} |-> p[x]]

\* Queue.put appends at the tail, Queue.get takes the head (QueuePutFront: a
\* queue that puts at the head; QueuePeeked: a get that leaves the head)
QueuePutFront(q, m) == <<m>> \o q
QueuePut(q, m) == Append(q, m)
QueueGet(q) == Head(q)
QueuePeeked(q) == q
QueueRest(q) == Tail(q)

(***************************************************************************)
(* connect(target): open the channel, bind the target and start the        *)
(* receive task.  Nothing closes a channel the session is already bound    *)
(* to: its receive task keeps running.  A failed open raises               *)
(* CDPConnectionError before anything is assigned and is left out.         *)
(* The owner makes its connect and disconnect calls one after the other.   *)
(***************************************************************************)
Connect(target) ==
    /\ UNCHANGED aside
    /\ dpc = "idle"
    /\ nconn < MaxConnects
    /\ nconn' = nconn + 1
    /\ ws' = nconn + 1
    /\ current_target' = target
    /\ recv_task' = nconn + 1
    /\ chan' = [chan EXCEPT ![nconn + 1] = "open"]
    /\ recv' = [recv EXCEPT ![nconn + 1] = "running"]
    /\ disconnects' = 0
    /\ UNCHANGED <<message_id, pending_commands, event_queue, calls, dpc, nread,
                   lastRead, yielded>>

(***************************************************************************)
(* disconnect().  Task.cancel() ends the receive task at the await it is   *)
(* suspended in, so the task reads no further frame; disconnect resumes    *)
(* from `await self._recv_task` and from `await self._ws.close()` in later *)
(* turns of the event loop.                                                *)
(***************************************************************************)
\* a cancel() that the task never notices
CancelUnnoticed(r, t) == r
\* line 135: Task.cancel()
Cancel(r, t) == [r EXCEPT ![t] = IF @ = "running" THEN "cancelled" ELSE @]

\* a disconnect() that leaves the pending table as it is
ClearBindingKeepPending ==
    /\ current_target' = NoTarget
    /\ pending_commands' = pending_commands
    /\ disconnects' = disconnects + 1
    /\ dpc' = "idle"

\* lines 144-145; disconnect() returns
ClearBinding ==
    /\ current_target' = NoTarget
    /\ pending_commands' = EmptyMap
    /\ disconnects' = disconnects + 1
    /\ dpc' = "idle"

\* lines 140-145, entered with self._recv_task already None
CloseChannel ==
    IF ws # None
    THEN /\ chan' = [chan EXCEPT ![ws] = "closed"]
         /\ dpc' = "awaitClose"
         /\ UNCHANGED <<ws, current_target, pending_commands, disconnects>>
    ELSE /\ ClearBinding
         /\ UNCHANGED <<ws, chan>>

DisconnectBegin ==
    /\ UNCHANGED aside
    /\ dpc = "idle"
    /\ disconnects < MaxDisconnects
    /\ IF recv_task # None
       THEN /\ recv' = Cancel(recv, recv_task)
            /\ dpc' = "awaitTask"
            /\ UNCHANGED <<ws, recv_task, current_target, pending_commands, chan,
                           disconnects>>
       ELSE /\ CloseChannel
            /\ UNCHANGED <<recv_task, recv>>
    /\ UNCHANGED <<message_id, event_queue, calls, nconn, nread, lastRead, yielded>>

DisconnectJoined ==
    /\ UNCHANGED aside
    /\ dpc = "awaitTask"
    /\ recv_task' = None
    /\ CloseChannel
    /\ UNCHANGED <<message_id, event_queue, calls, recv, nconn, nread, lastRead,
                   yielded>>

\* a disconnect() that also empties the event queue
DisconnectClosedDrains ==
    /\ UNCHANGED aside
    /\ dpc = "awaitClose"
    /\ ws' = None
    /\ ClearBinding
    /\ event_queue' = <<>>
    /\ UNCHANGED <<recv_task, message_id, calls, chan, recv, nconn,
                   nread, lastRead, yielded>>
\* lines 142-145, after `await self._ws.close()`
DisconnectClosed ==
    /\ UNCHANGED aside
    /\ dpc = "awaitClose"
    /\ ws' = None
    /\ ClearBinding
    /\ UNCHANGED <<recv_task, message_id, event_queue, calls, chan, recv, nconn,
                   nread, lastRead, yielded>>

(***************************************************************************)
(* send_command(method, params).  Lines 153-166 run without suspension up  *)
(* to the write to the channel; a write to a closed channel raises the     *)
(* transport's ConnectionClosed out of send_command.  The call then waits  *)
(* in asyncio.wait_for for its future and returns the future's result or   *)
(* raises its exception as soon as the receive loop has completed it.  A   *)
(* call on a session with no channel raises CDPConnectionError at line 154 *)
(* and assigns nothing.                                                    *)
(***************************************************************************)
\* self._message_id += 1, and a counter that stands still
SameMessageId(m) == m
NextMessageId(m) == m + 1

NewCall(msg_id, ch, open) ==
    [id |-> msg_id, chan |-> ch, fut |-> PendingFuture,
     pc |-> IF open THEN "wait" ELSE "done",
     outcome |-> IF open THEN "none" ELSE "ConnectionClosed",
     elapsed |-> 0]

\* a send_command that leaves the table to the receive loop
RegisterNothing(p, msg_id, c) == p
\* self._pending_commands[msg_id] = future
Register(p, msg_id, c) == MapPut(p, msg_id, c)

SendCommand ==
    /\ UNCHANGED aside
    /\ ws # None
    /\ Len(calls) < MaxCalls
    /\ message_id' = NextMessageId(message_id)
    /\ pending_commands' = Register(pending_commands, message_id', Len(calls) + 1)
    /\ calls' = Append(calls, NewCall(message_id', ws, chan[ws] = "open"))
    /\ UNCHANGED <<ws, recv_task, current_target, event_queue, chan, recv, dpc, nconn,
                   disconnects, nread, lastRead, yielded>>

Suspended(c) == calls[c].pc = "wait" /\ calls[c].fut.state = "pending"

\* time passes for the calls that wait
Tick ==
    /\ UNCHANGED aside
    /\ \E c \in 1..Len(calls) : Suspended(c) /\ calls[c].elapsed < COMMAND_TIMEOUT
    /\ calls' = [c \in 1..Len(calls) |->
                    IF Suspended(c) /\ calls[c].elapsed < COMMAND_TIMEOUT
                    THEN [calls[c] EXCEPT !.elapsed = @ + TimeStep]
                    ELSE calls[c]]
    /\ UNCHANGED <<ws, recv_task, current_target, message_id, pending_commands,
                   event_queue, chan, recv, dpc, nconn, disconnects, nread, lastRead,
                   yielded>>

\* a wait without a time limit
TimerNeverDue(elapsed) == FALSE
\* wait_for's timer: the future is cancelled once the timeout has passed
TimerDue(elapsed) == elapsed >= COMMAND_TIMEOUT

TimerFire(c) ==
    /\ UNCHANGED aside
    /\ Suspended(c)
    /\ TimerDue(calls[c].elapsed)
    /\ calls' = [calls EXCEPT ![c].fut.state = "cancelled"]
    /\ UNCHANGED <<ws, recv_task, current_target, message_id, pending_commands,
                   event_queue, chan, recv, dpc, nconn, disconnects, nread, lastRead,
                   yielded>>

\* lines 171-173: self._pending_commands.pop(msg_id, None) (TimeoutPopNothing: a
\* handler that leaves the slot)
TimeoutPopNothing(p, msg_id) == p
TimeoutPop(p, msg_id) == MapRemove(p, msg_id)

\* a handler that gives up the connection with the command
TimeoutHandlerClosing(c) ==
    /\ UNCHANGED aside
    /\ calls[c].pc = "wait"
    /\ calls[c].fut.state = "cancelled"
    /\ pending_commands' = TimeoutPop(pending_commands, calls[c].id)
    /\ calls' = [calls EXCEPT ![c].pc = "done", ![c].outcome = "CDPConnectionError"]
    /\ chan' = [chan EXCEPT ![calls[c].chan] = "closed"]
    /\ recv' = Cancel(recv, calls[c].chan)
    /\ UNCHANGED <<ws, recv_task, current_target, message_id, event_queue,
                   dpc, nconn, disconnects, nread, lastRead, yielded>>
\* lines 171-173
TimeoutHandler(c) ==
    /\ UNCHANGED aside
    /\ calls[c].pc = "wait"
    /\ calls[c].fut.state = "cancelled"
    /\ pending_commands' = TimeoutPop(pending_commands, calls[c].id)
    /\ calls' = [calls EXCEPT ![c].pc = "done", ![c].outcome = "CDPConnectionError"]
    /\ UNCHANGED <<ws, recv_task, current_target, message_id, event_queue, chan, recv,
                   dpc, nconn, disconnects, nread, lastRead, yielded>>

(***************************************************************************)
(* _receive_loop, one iteration: read a frame, decode it and route it.     *)
(* Every exception but CancelledError raised inside the loop is caught     *)
(* outside it (lines 482-487), which ends the loop.                        *)
(***************************************************************************)
\* json.loads(raw_message) returns
Decodes(raw) == raw.kind = "json"

\* "id" in message (HasPendingId: a test for the id of a pending request)
HasPendingId(message) == message.hasId /\ message.id \in DOMAIN pending_commands
HasId(message) == message.hasId

\* self._pending_commands.pop(msg_id, None): the future found, or None
\* (LookupOldest: the future of the oldest pending request, whatever the id)
LookupOldest(p, msg_id) ==
    IF DOMAIN p = {} THEN None
    ELSE p[CHOOSE k \in DOMAIN p : \A j \in DOMAIN p : k <= j]
Lookup(p, msg_id) == IF msg_id \in DOMAIN p THEN p[msg_id] ELSE None

\* if future and not future.done() (CompletesAnyFuture: without the done test)
CompletesAnyFuture(c) == c # None
Completes(c) == c # None /\ ~Done(calls[c].fut)

\* CDPProtocolError(err.get("code", -1), err.get("message", ""))
\* (ProtocolErrorZeroDefault: with 0 for a missing code)
ProtocolErrorZeroDefault(message) ==
    [state |-> "exception", value |-> "",
     code |-> IF message.hasCode THEN message.code ELSE 0,
     message |-> IF message.hasMessage THEN message.message ELSE DEFAULT_ERROR_MESSAGE,
     from |-> message]
ProtocolError(message) ==
    [state |-> "exception", value |-> "",
     code |-> IF message.hasCode THEN message.code ELSE DEFAULT_ERROR_CODE,
     message |-> IF message.hasMessage THEN message.message ELSE DEFAULT_ERROR_MESSAGE,
     from |-> message]

\* message.get("result", {})
Result(message) ==
    [state |-> "result",
     value |-> IF message.hasResult THEN message.result ELSE EMPTY_MAP,
     code |-> 0, message |-> "", from |-> message]

\* lines 169-170: wait_for hands the completed future's outcome to the caller,
\* if the caller is still there (a call whose write raised has left already)
Returns(call, fut) ==
    IF call.pc = "wait"
    THEN [call EXCEPT !.fut = fut, !.pc = "done", !.elapsed = 0,
                      !.outcome = IF fut.state = "result" THEN "result"
                                  ELSE "CDPProtocolError"]
    ELSE [call EXCEPT !.fut = fut]

\* a loop that gives up on a reply nobody waits for
ReplyStopsOnUnknown(ch, message) ==
    LET c == Lookup(pending_commands, message.id) IN
    /\ pending_commands' = MapRemove(pending_commands, message.id)
    /\ IF Completes(c)
       THEN /\ calls' = [calls EXCEPT ![c] = Returns(@, Result(message))]
            /\ UNCHANGED recv
       ELSE /\ recv' = [recv EXCEPT ![ch] = "exited"]
            /\ UNCHANGED calls
    /\ UNCHANGED event_queue
\* lines 469-478
Reply(ch, message) ==
    LET c == Lookup(pending_commands, message.id) IN
    /\ pending_commands' = MapRemove(pending_commands, message.id)
    /\ IF Completes(c)
       THEN IF message.err = "absent"
            THEN /\ calls' = [calls EXCEPT ![c] = Returns(@, Result(message))]
                 /\ UNCHANGED recv
            ELSE IF message.err = "object"
            THEN /\ calls' = [calls EXCEPT ![c] = Returns(@, ProtocolError(message))]
                 /\ UNCHANGED recv
            \* err.get on a value that is no object raises
            ELSE /\ recv' = [recv EXCEPT ![ch] = "exited"]
                 /\ UNCHANGED calls
       ELSE UNCHANGED <<calls, recv>>
    /\ UNCHANGED event_queue

ReceiveLoop(ch, raw) ==
    LET message == raw IN
    /\ UNCHANGED aside
    /\ recv[ch] = "running"
    /\ chan[ch] = "open"
    /\ nread < MaxFrames
    /\ nread' = nread + 1
    /\ lastRead' = Header(message)
    /\ IF ~Decodes(raw)
       THEN /\ recv' = [recv EXCEPT ![ch] = "exited"]
            /\ UNCHANGED <<pending_commands, calls, event_queue>>
       ELSE IF HasId(message)
       THEN Reply(ch, message)
       ELSE /\ event_queue' = QueuePut(event_queue, Stamp(message, nread + 1))
            /\ UNCHANGED <<pending_commands, calls, recv>>
    /\ UNCHANGED <<ws, recv_task, current_target, message_id, chan, dpc, nconn,
                   disconnects, yielded>>

\* the remote end closes the channel: `async for raw_message in self._ws` ends
\* (a ConnectionClosed raised by it is caught at line 482)
ChannelClosed(ch) ==
    /\ UNCHANGED aside
    /\ chan[ch] = "open"
    /\ chan' = [chan EXCEPT ![ch] = "closed"]
    /\ recv' = [recv EXCEPT ![ch] = IF @ = "running" THEN "exited" ELSE @]
    /\ UNCHANGED <<ws, recv_task, current_target, message_id, pending_commands,
                   event_queue, calls, dpc, nconn, disconnects, nread, lastRead,
                   yielded>>

(***************************************************************************)
(* stream_events, one iteration: take the next event off the queue and     *)
(* yield it.                                                               *)
(***************************************************************************)
StreamEvents ==
    /\ UNCHANGED aside
    /\ event_queue # <<>>
    /\ yielded' = Append(yielded, QueueGet(event_queue))
    /\ event_queue' = QueueRest(event_queue)
    /\ UNCHANGED <<ws, recv_task, current_target, message_id, pending_commands, calls,
                   chan, recv, dpc, nconn, disconnects, nread, lastRead>>

Next ==
    \/ \E target \in Targets : Connect(target)
    \/ DisconnectBegin
    \/ DisconnectJoined
    \/ DisconnectClosed
    \/ SendCommand
    \/ Tick
    \/ \E c \in 1..Len(calls) : TimerFire(c)
    \/ \E c \in 1..Len(calls) : TimeoutHandler(c)
    \/ \E ch \in Channels, raw \in RawFrames : ReceiveLoop(ch, raw)
    \/ \E ch \in Channels : ChannelClosed(ch)
    \/ StreamEvents

Spec == Init /\ [][Next]_vars

TypeOK ==
    /\ ws \in Channels \cup {None}
    /\ recv_task \in Channels \cup {None}
    /\ current_target \in Targets \cup {NoTarget}
    /\ message_id \in 0..MaxCalls
    /\ DOMAIN pending_commands \subseteq 1..MaxCalls
    /\ dpc \in {"idle", "awaitTask", "awaitClose"}
    /\ Len(calls) <= MaxCalls
    /\ Len(event_queue) + Len(yielded) <= nread

(***************************************************************************)
(* Properties of the session.                                              *)
(***************************************************************************)
CallIds == 1..Len(calls)
ByReply(c) == calls[c].fut.state \in {"result", "exception"}
JustRead == nread' # nread

\* C1: the future of a call is completed at most once and the caller sees one
\* outcome: a future that is done is never changed again by any frame, timer or
\* disconnect, and a call that has finished keeps the outcome it finished with,
\* which is the one its future holds.
C1_CompletedAtMostOnce ==
    [][\A c \in CallIds :
          /\ Done(calls[c].fut) => calls'[c].fut = calls[c].fut
          /\ calls[c].pc = "done" =>
                /\ calls'[c].pc = "done"
                /\ calls'[c].outcome = calls[c].outcome
          /\ calls[c].outcome = "result" => calls[c].fut.state = "result"
          /\ calls[c].outcome = "CDPProtocolError" => calls[c].fut.state = "exception"
          /\ calls[c].outcome = "CDPConnectionError" => calls[c].fut.state = "cancelled"
          /\ calls[c].outcome = "none" <=> calls[c].pc = "wait"]_vars

\* a second reply with the id of a call that has already returned a result
C1_Witness ==
    \E c \in CallIds :
        /\ calls[c].outcome = "result"
        /\ lastRead.hasId /\ lastRead.id = calls[c].id
        /\ lastRead.err = "object"

\* C2: a call completed by a reply was completed by a reply that carries the id
\* the call allocated, and holds that reply's payload.
C2_OwnReply ==
    \A c \in CallIds :
        ByReply(c) =>
            LET reply == calls[c].fut.from IN
            /\ reply.hasId /\ reply.id = calls[c].id
            /\ calls[c].fut.state = "result" /\ reply.hasResult
                  => calls[c].fut.value = reply.result
            /\ calls[c].fut.state = "exception" /\ reply.hasCode
                  => calls[c].fut.code = reply.code

\* two calls in flight at once, answered in the reverse of their request order
C2_Witness ==
    /\ Len(calls) = 2
    /\ ByReply(1) /\ ByReply(2)
    /\ nread = 2
    /\ lastRead.hasId /\ lastRead.id = calls[1].id

\* C3: once disconnect() has returned no send_command call is still suspended
\* waiting for its reply.
C3_NoCallSuspendedAfterDisconnect ==
    (dpc = "idle" /\ disconnects >= 1) => \A c \in CallIds : ~Suspended(c)

\* C4 as stated: a decoded message whose id matches a pending request is not
\* enqueued, and every other decoded message (no id, or an id that matches no
\* pending request) is placed on the event queue.
C4_UnmatchedIdIsEnqueued ==
    [][JustRead /\ lastRead'.kind = "json" =>
          IF lastRead'.hasId /\ lastRead'.id \in DOMAIN pending_commands
          THEN event_queue' = event_queue
          ELSE Len(event_queue') = Len(event_queue) + 1]_vars

\* C4 as amended: a decoded message with an id key is never placed on the event
\* queue (it is taken as the reply of the pending request with that id, whose
\* slot is removed, or else discarded), and a decoded message without an id key
\* is appended to the event queue; so nothing queued or yielded carries an id.
C4_RoutedByIdKey ==
    [][/\ JustRead /\ lastRead'.kind = "json" =>
             IF lastRead'.hasId
             THEN /\ event_queue' = event_queue
                  /\ lastRead'.id \notin DOMAIN pending_commands'
             ELSE /\ Len(event_queue') = Len(event_queue) + 1
                  /\ \A i \in 1..Len(event_queue) : event_queue'[i] = event_queue[i]
                  /\ event_queue'[Len(event_queue')].seq = nread'
                  /\ pending_commands' = pending_commands
       /\ \A i \in 1..Len(event_queue) : ~event_queue[i].hasId
       /\ \A i \in 1..Len(yielded) : ~yielded[i].hasId]_vars

\* a message with an id that matches no pending request was read and not enqueued
C4_Witness ==
    /\ nread = 1
    /\ lastRead.kind = "json" /\ lastRead.hasId
    /\ calls = <<>>
    /\ event_queue = <<>> /\ yielded = <<>>

\* C5: the events yielded so far, followed by those still queued, are in the
\* order in which the receive loop read them.
C5_ArrivalOrder ==
    LET feed == yielded \o event_queue IN
    \A i, j \in 1..Len(feed) : i < j => feed[i].seq < feed[j].seq

\* two events yielded, with the reply of a call read between them
C5_Witness ==
    /\ Len(yielded) = 2
    /\ yielded[1].seq + 1 < yielded[2].seq
    /\ \E c \in CallIds : ByReply(c)

\* C6: reading a frame that does not decode stops no receive loop.
C6_MalformedFrameKeepsLoop ==
    [][JustRead /\ lastRead'.kind = "garbage" => recv' = recv]_vars

\* C7: a call fails with the timeout's CDPConnectionError only after
\* COMMAND_TIMEOUT units of waiting; the step that fails it removes its id from
\* the pending table and leaves every other slot and every other call as it was.
C7_TimeoutRemovesOwnSlot ==
    [][\A c \in CallIds :
          calls[c].pc = "wait" /\ calls'[c].outcome = "CDPConnectionError" =>
             /\ calls[c].elapsed >= 30
             /\ calls'[c].pc = "done"
             /\ calls[c].id \notin DOMAIN pending_commands'
             /\ \A k \in (DOMAIN pending_commands) \ {calls[c].id} :
                   k \in DOMAIN pending_commands'
                   /\ pending_commands'[k] = pending_commands[k]
             /\ \A d \in CallIds \ {c} : calls'[d] = calls[d]]_vars

\* a call has timed out while the slot of another call in flight is still there
C7_Witness ==
    \E c, d \in CallIds :
        /\ calls[c].outcome = "CDPConnectionError"
        /\ Suspended(d)
        /\ calls[d].id \in DOMAIN pending_commands
        /\ pending_commands[calls[d].id] = d

C9_DisconnectIdempotent ==
    [][/\ (dpc = "idle" /\ disconnects >= 1) =>
             /\ ws = None /\ recv_task = None
             /\ current_target = NoTarget
             /\ DOMAIN pending_commands = {}
       /\ disconnects' = disconnects + 1 =>
             /\ dpc' = "idle"
             /\ ws' = None /\ recv_task' = None
             /\ current_target' = NoTarget
             /\ DOMAIN pending_commands' = {}
       /\ (disconnects' = disconnects + 1 /\ disconnects >= 1) =>
             UNCHANGED <<session, calls, chan, recv, nconn, nread, lastRead, yielded>>]_vars

\* a second disconnect() after one that tore down a session with a call in flight
C9_Witness ==
    /\ disconnects = 2
    /\ dpc = "idle"
    /\ \E c \in CallIds : recv[calls[c].chan] = "cancelled"

\* C10: the request ids are positive, strictly increasing in the order the calls
\* allocated them, and the counter is the id issued last.
C10_IdsIncrease ==
    /\ \A c \in CallIds : calls[c].id >= 1 /\ calls[c].id <= message_id
    /\ \A c, d \in CallIds : c < d => calls[c].id < calls[d].id

\* one call before a disconnect(), the next after the connect() that followed
C10_Witness ==
    /\ Len(calls) = 2
    /\ calls[1].chan # calls[2].chan
    /\ recv[calls[1].chan] = "cancelled"

(***************************************************************************)
(* Target resolution: find_target over the directory list_targets returns. *)
(* A Python str is a sequence of characters, so that `in` and == are       *)
(* computed; an optional argument is either absent (None) or a str.        *)
(***************************************************************************)
MaxTargets == 2

Absent == [some |-> FALSE, v |-> <<>>]
Some(s) == [some |-> TRUE, v |-> s]

\* bool(x) of an Optional[str]: None and "" are both false
Truthy(o) == o.some /\ Len(o.v) > 0

\* sub in s
Contains(sub, s) ==
    \E i \in 0..(Len(s) - Len(sub)) : SubSeq(s, i + 1, i + Len(sub)) = sub

\* the targets of a directory
CDPTarget == [id : {<<"a">>, <<"b">>}, target_type : {"page", "worker"},
              url : {<<"x">>, <<"x", "y">>}, title : {<<"x">>, <<"y">>}]
NullTarget == [id |-> <<>>, target_type |-> "", url |-> <<>>, title |-> <<>>]

\* a filter: absent, empty, contained in some url or title, or in none
Filters == {Absent, Some(<<>>), Some(<<"y">>), Some(<<"y", "x">>)}

NotReturned == [outcome |-> "pending", value |-> NullTarget]
Return(t) == [outcome |-> "return", value |-> t]
Raise(exc) == [outcome |-> exc, value |-> NullTarget]

\* for t in ts: if P(t): return t  /  raise TargetNotFoundError
\* (matches: the positions in ts of the targets the test accepts)
FirstOrRaise(ts, matches) ==
    IF matches # {}
    THEN Return(ts[CHOOSE i \in matches : \A j \in matches : i <= j])
    ELSE Raise("TargetNotFoundError")

\* a resolver that searches the targets of every type
AnyTypeTargets(targets) == targets
\* line 104
PageTargets(targets) == SelectSeq(targets, LAMBDA t : t.target_type = "page")

\* a resolver that falls back to the last target
LastFallback(page_targets, targets) ==
    IF Len(page_targets) > 0 THEN page_targets[1] ELSE targets[Len(targets)]
\* lines 118-121
FirstFallback(page_targets, targets) ==
    IF Len(page_targets) > 0 THEN page_targets[1] ELSE targets[1]

find_target(targets, target_id, url_filter, title_filter) ==
    IF Len(targets) = 0 THEN Raise("TargetNotFoundError")
    ELSE IF Truthy(target_id)
    THEN FirstOrRaise(targets, {i \in 1..Len(targets) :
                                   targets[i].id = target_id.v})
    ELSE LET page_targets == PageTargets(targets)
             pages == 1..Len(page_targets)
         IN
         IF Truthy(url_filter)
         THEN FirstOrRaise(page_targets, {i \in pages :
                               Contains(url_filter.v, page_targets[i].url)})
         ELSE IF Truthy(title_filter)
         THEN FirstOrRaise(page_targets, {i \in pages :
                               Contains(title_filter.v, page_targets[i].title)})
         ELSE Return(FirstFallback(page_targets, targets))

\* a caller holds a directory and its selectors, and has not called yet
TargetsInit ==
    /\ SessionIdle
    /\ NetworkIdle
    /\ arg \in [targets : UNION {[1..n -> CDPTarget] : n \in 0..MaxTargets},
                target_id : {Absent, Some(<<>>), Some(<<"a">>), Some(<<"b">>),
                             Some(<<"c">>)},
                url_filter : Filters, title_filter : Filters]
    /\ ret = NotReturned
    /\ wire = <<>>
    /\ restored = <<>>

FindTarget ==
    /\ ret = NotReturned
    /\ ret' = find_target(arg.targets, arg.target_id, arg.url_filter,
                          arg.title_filter)
    /\ UNCHANGED <<arg, wire, restored, network, vars>>

TargetsNext == FindTarget

SpecTargets == TargetsInit /\ [][TargetsNext]_<<vars, aside>>

(***************************************************************************)
(* Properties of target resolution.                                        *)
(***************************************************************************)
Resolved == ret.outcome # "pending"
Hits(P(_)) == {i \in 1..Len(arg.targets) : P(arg.targets[i])}
\* the call returned the first of the targets at the positions H, or raised
\* TargetNotFoundError when there is none
FirstOf(H) ==
    IF H = {}
    THEN ret = Raise("TargetNotFoundError")
    ELSE ret = Return(arg.targets[CHOOSE i \in H : \A j \in H : i <= j])
IsPage(t) == t.target_type = "page"

\* C11: find_target resolves by id, then url substring, then title substring.
\* With a target_id (a non-empty one) it returns the first target of any type
\* whose id equals it, or raises TargetNotFoundError, whatever the filters
\* are; otherwise with a url_filter it returns the first page-type target
\* whose url contains the filter and raises TargetNotFoundError when no
\* page-type target does, even when a target of another type does; otherwise
\* with a title_filter the same over the titles.
C11_SelectorOrder ==
    Resolved =>
        /\ Truthy(arg.target_id) =>
               FirstOf(Hits(LAMBDA t : t.id = arg.target_id.v))
        /\ ~Truthy(arg.target_id) /\ Truthy(arg.url_filter) =>
               FirstOf(Hits(LAMBDA t : IsPage(t) /\ Contains(arg.url_filter.v, t.url)))
        /\ ~Truthy(arg.target_id) /\ ~Truthy(arg.url_filter)
               /\ Truthy(arg.title_filter) =>
               FirstOf(Hits(LAMBDA t : IsPage(t)
                                           /\ Contains(arg.title_filter.v, t.title)))

\* a url_filter that only a worker's url contains has raised TargetNotFoundError
C11_Witness ==
    /\ Resolved
    /\ ~Truthy(arg.target_id)
    /\ Truthy(arg.url_filter)
    /\ Len(arg.targets) = 2
    /\ \E i \in 1..2 : /\ ~IsPage(arg.targets[i])
                       /\ Contains(arg.url_filter.v, arg.targets[i].url)
    /\ \E i \in 1..2 : /\ IsPage(arg.targets[i])
                       /\ ~Contains(arg.url_filter.v, arg.targets[i].url)
    /\ ret = Raise("TargetNotFoundError")

\* C12: with no selector find_target returns the first page-type target, or
\* the first target of any type when no target is page-type; with an empty
\* directory it raises TargetNotFoundError whatever the selectors are.
C12_DefaultTarget ==
    Resolved =>
        /\ Len(arg.targets) = 0 => ret = Raise("TargetNotFoundError")
        /\ /\ Len(arg.targets) > 0
           /\ ~Truthy(arg.target_id)
           /\ ~Truthy(arg.url_filter)
           /\ ~Truthy(arg.title_filter)
           => IF Hits(IsPage) # {}
              THEN FirstOf(Hits(IsPage))
              ELSE ret = Return(arg.targets[1])

\* no selector and two different targets, neither a page: the first is returned
C12_Witness ==
    /\ Resolved
    /\ arg.target_id = Absent
    /\ arg.url_filter = Absent
    /\ arg.title_filter = Absent
    /\ Len(arg.targets) = 2
    /\ arg.targets[1] # arg.targets[2]
    /\ Hits(IsPage) = {}
    /\ ret = Return(arg.targets[1])

(***************************************************************************)
(* stream_network: the request/response correlator.  It takes the events   *)
(* of stream_events one at a time; the generator is suspended at a yield   *)
(* until its consumer asks for the next event, and line 360 runs only      *)
(* after the yield of line 358 has been resumed.                           *)
(***************************************************************************)
MaxEvents == 3

Null == "None"

\* the events on the wire; url is request.url or response.url, hasUrl says
\* whether the payload carries that key
\* params.get("redirectResponse"): whether the key is there, the keys of the
\* dict and its status; an empty dict is false
NoRedirect == [given |-> FALSE, keys |-> {}, status |-> None]
NetworkEvent(method, hasUrl, urls, statuses, errors) ==
    [method : {method}, requestId : {"R1", "R2"}, type : {"XHR", "Image"},
     hasUrl : hasUrl, url : urls, httpMethod : {"POST"}, frameId : {"F"},
     status : statuses, errorText : errors, redirectResponse : {NoRedirect}]
Requests == NetworkEvent("Network.requestWillBeSent", {TRUE}, {"U1", "U2"}, {None}, {Null})
Responses == NetworkEvent("Network.responseReceived", BOOLEAN, {"U1"}, {200, 404}, {Null})
Failures == NetworkEvent("Network.loadingFailed", {FALSE}, {""}, {None}, {"ERR_FAILED"})
OtherEvents == NetworkEvent("Page.loadEventFired", {FALSE}, {""}, {None}, {Null})

\* d.get("url", "")
UrlOf(params) == IF params.hasUrl THEN params.url ELSE ""

WatchEvent(kind, url, method, status, params, error_text, frame_id) ==
    [kind |-> kind, url |-> url, method |-> method, status |-> status,
     resource_type |-> params.type, request_id |-> params.requestId,
     error_text |-> error_text, frame_id |-> frame_id,
     redirect_url |-> Null, element |-> Null]

\* a constructor that takes every request for a first request
RequestWithoutRedirect(params) ==
    WatchEvent("request", UrlOf(params), params.httpMethod, None, params, Null,
               params.frameId)
\* log_event.py lines 364-387
from_request_will_be_sent(params) ==
    LET redirect_response == params.redirectResponse
        redirected == redirect_response.given /\ redirect_response.keys # {}
    IN  [WatchEvent(IF redirected THEN "redirect" ELSE "request", UrlOf(params),
                    params.httpMethod,
                    IF redirected /\ "status" \in redirect_response.keys
                    THEN redirect_response.status ELSE None,
                    params, Null, params.frameId)
         EXCEPT !.redirect_url = IF redirected THEN params.url ELSE Null]

from_response_received(params) ==
    WatchEvent("response", UrlOf(params), Null, params.status, params, Null,
               params.frameId)

from_loading_failed(params) ==
    WatchEvent("failed", "", Null, None, params, params.errorText, Null)

\* a correlator whose resource-type filter rejects nothing
TypeNeverRejected(params) == FALSE
\* `if resource_types and resource_type not in resource_types`
TypeRejected(params) ==
    opts.resource_types # {} /\ params.type \notin opts.resource_types

\* a correlator that lets every response through
ResponseNeverRejected(params) == FALSE
\* lines 350-355
ResponseRejected(params) ==
    \/ opts.status_filter # {} /\ params.status \notin opts.status_filter
    \/ TypeRejected(params)

\* line 335: the entry a request records
RequestInfo(params) ==
    [url |-> UrlOf(params), method |-> params.httpMethod, type |-> params.type,
     frame_id |-> params.frameId]

\* a correlator that forgets nothing when a response has passed
KeepEntry(p, request_id) == p
\* pending_requests.pop(request_id, None)
PopEntry(p, request_id) == MapRemove(p, request_id)

\* a correlator that recalls the url of any request still pending
RecallAny(p, request_id, key, default) ==
    IF DOMAIN p # {} THEN p[CHOOSE k \in DOMAIN p : TRUE][key] ELSE default
\* request_info.get(key, default) of request_info = pop(request_id, {})
Recall(p, request_id, key, default) ==
    IF request_id \in DOMAIN p THEN p[request_id][key] ELSE default

Yield(e) == emitted' = Append(emitted, e)

\* stream_network(...) is called; None and the empty set are both false
NetworkInit ==
    /\ SessionIdle
    /\ CallIdle
    /\ opts \in [include_requests : BOOLEAN, include_responses : BOOLEAN,
                 include_failures : BOOLEAN, resource_types : {{}, {"XHR"}},
                 status_filter : {{}, {404}}]
    /\ pending_requests = EmptyMap
    /\ consumed = <<>>
    /\ emitted = <<>>
    /\ net_pc = "next"

\* the loop takes the next event
Take(params) ==
    /\ net_pc = "next"
    /\ Len(consumed) < MaxEvents
    /\ consumed' = Append(consumed, params)
    /\ UNCHANGED <<opts, offline, vars>>

\* a correlator that keeps the first entry a requestId has recorded
RequestWillBeSentKeepFirst(params) ==
    /\ Take(params)
    /\ IF TypeRejected(params)
       THEN UNCHANGED <<pending_requests, emitted>>
       ELSE /\ pending_requests' =
                   IF params.requestId \in DOMAIN pending_requests
                   THEN pending_requests
                   ELSE MapPut(pending_requests, params.requestId,
                               RequestInfo(params))
            /\ IF opts.include_requests
               THEN Yield(from_request_will_be_sent(params))
               ELSE UNCHANGED emitted
    /\ UNCHANGED net_pc
\* lines 328-343
RequestWillBeSent(params) ==
    /\ Take(params)
    /\ IF TypeRejected(params)
       THEN UNCHANGED <<pending_requests, emitted>>
       ELSE /\ pending_requests' = MapPut(pending_requests, params.requestId,
                                          RequestInfo(params))
            /\ IF opts.include_requests
               THEN Yield(from_request_will_be_sent(params))
               ELSE UNCHANGED emitted
    /\ UNCHANGED net_pc

\* lines 345-360, up to the yield when there is one
ResponseReceived(params) ==
    /\ Take(params)
    /\ IF ResponseRejected(params)
       THEN UNCHANGED <<pending_requests, emitted, net_pc>>
       ELSE IF opts.include_responses
       THEN /\ Yield(from_response_received(params))
            /\ net_pc' = "yielded"
            /\ UNCHANGED pending_requests
       ELSE /\ pending_requests' = PopEntry(pending_requests, params.requestId)
            /\ UNCHANGED <<emitted, net_pc>>

\* line 360, when the consumer resumes the generator
ResponseResumed ==
    /\ net_pc = "yielded"
    /\ pending_requests' = PopEntry(pending_requests,
                                    consumed[Len(consumed)].requestId)
    /\ net_pc' = "next"
    /\ UNCHANGED <<opts, consumed, emitted, offline, vars>>

\* a correlator that filters a failure before it forgets the request
LoadingFailedFilterFirst(params) ==
    /\ Take(params)
    /\ IF TypeRejected(params)
       THEN UNCHANGED <<pending_requests, emitted>>
       ELSE /\ pending_requests' = MapRemove(pending_requests, params.requestId)
            /\ IF opts.include_failures
               THEN Yield([from_loading_failed(params) EXCEPT
                               !.url = Recall(pending_requests, params.requestId,
                                              "url", "")])
               ELSE UNCHANGED emitted
    /\ UNCHANGED net_pc
\* lines 362-375
LoadingFailed(params) ==
    /\ Take(params)
    /\ pending_requests' = MapRemove(pending_requests, params.requestId)
    /\ IF ~TypeRejected(params) /\ opts.include_failures
       THEN Yield([from_loading_failed(params) EXCEPT
                       !.url = Recall(pending_requests, params.requestId, "url", ""),
                       !.method = Recall(pending_requests, params.requestId,
                                         "method", Null),
                       !.frame_id = Recall(pending_requests, params.requestId,
                                           "frame_id", Null)])
       ELSE UNCHANGED emitted
    /\ UNCHANGED net_pc

\* an event of another method falls through the three branches
Ignored(params) ==
    /\ Take(params)
    /\ UNCHANGED <<pending_requests, emitted, net_pc>>

NetworkNext ==
    \/ \E params \in Requests : RequestWillBeSent(params)
    \/ \E params \in Responses : ResponseReceived(params)
    \/ ResponseResumed
    \/ \E params \in Failures : LoadingFailed(params)
    \/ \E params \in OtherEvents : Ignored(params)

SpecNetwork == NetworkInit /\ [][NetworkNext]_<<vars, aside>>

(***************************************************************************)
(* Properties of the correlator.                                           *)
(***************************************************************************)
NoFilters ==
    /\ opts.include_requests /\ opts.include_responses /\ opts.include_failures
    /\ opts.resource_types = {}
    /\ opts.status_filter = {}
IsRequest(e) == e.method = "Network.requestWillBeSent"
IsResponse(e) == e.method = "Network.responseReceived"
IsFailure(e) == e.method = "Network.loadingFailed"
\* with no filters, the position in `emitted` of the event made from consumed[i]
EmittedAt(i) ==
    Cardinality({k \in 1..i : IsRequest(consumed[k]) \/ IsResponse(consumed[k])
                                   \/ IsFailure(consumed[k])})
\* a request with id and url, and later a response with that id and status 404
RequestThen404(i, j) ==
    /\ i < j
    /\ IsRequest(consumed[i])
    /\ IsResponse(consumed[j])
    /\ consumed[j].requestId = consumed[i].requestId
    /\ consumed[j].status = 404
Handled(j) == j < Len(consumed) \/ net_pc = "next"

\* C13, as stated: with no filters, a request (R, U) followed by a response
\* (R, 404) produces a request event with url U and then a response event with
\* status 404 and url U, and R is no key of the pending table once the
\* response has been processed.
C13_ResponseCarriesRequestUrl ==
    NoFilters =>
        \A i, j \in 1..Len(consumed) :
            RequestThen404(i, j) =>
                /\ emitted[EmittedAt(i)].kind = "request"
                /\ emitted[EmittedAt(i)].url = consumed[i].url
                /\ emitted[EmittedAt(j)].kind = "response"
                /\ emitted[EmittedAt(j)].status = 404
                /\ emitted[EmittedAt(j)].url = consumed[i].url
                /\ j = Len(consumed) /\ Handled(j) =>
                       consumed[j].requestId \notin DOMAIN pending_requests

\* C13, amended: the response event carries the url of the response payload
\* itself (the empty string when the payload has none), which is U only when
\* the response says so; the rest as stated.
C13_ResponseCarriesOwnUrl ==
    NoFilters =>
        \A i, j \in 1..Len(consumed) :
            RequestThen404(i, j) =>
                /\ emitted[EmittedAt(i)].kind = "request"
                /\ emitted[EmittedAt(i)].url = consumed[i].url
                /\ emitted[EmittedAt(i)].request_id = consumed[i].requestId
                /\ emitted[EmittedAt(j)].kind = "response"
                /\ emitted[EmittedAt(j)].status = 404
                /\ emitted[EmittedAt(j)].request_id = consumed[i].requestId
                /\ emitted[EmittedAt(j)].url =
                       (IF consumed[j].hasUrl THEN consumed[j].url ELSE "")
                /\ j = Len(consumed) /\ Handled(j) =>
                       consumed[j].requestId \notin DOMAIN pending_requests

\* request (R1, U1), then response (R1, 404, url U1), handled
C13_Witness ==
    /\ NoFilters
    /\ Len(consumed) = 2
    /\ RequestThen404(1, 2)
    /\ consumed[1].url = "U1"
    /\ consumed[2].hasUrl /\ consumed[2].url = "U1"
    /\ net_pc = "next"
    /\ Len(emitted) = 2
    /\ emitted[2].url = "U1"
    /\ pending_requests = EmptyMap

\* the step that takes params from the event stream
Takes(params) == consumed' = Append(consumed, params)
Unknown(params) == params.requestId \notin DOMAIN pending_requests
FailedBlank(params) ==
    [kind |-> "failed", url |-> "", method |-> Null, status |-> None,
     resource_type |-> params.type, request_id |-> params.requestId,
     error_text |-> params.errorText, frame_id |-> Null,
     redirect_url |-> Null, element |-> Null]

\* C14, as stated: a loadingFailed whose requestId has no pending entry still
\* emits a failed event with empty url and no method or frame id, and leaves
\* the pending table unchanged.
C14_UnknownFailureAlwaysEmitted ==
    [][\A params \in Failures :
           Takes(params) /\ Unknown(params) =>
               /\ emitted' = Append(emitted, FailedBlank(params))
               /\ pending_requests' = pending_requests
               /\ net_pc' = "next"]_network

\* C14, amended: it does so when failures are included and its resource type
\* passes the type filter; otherwise it emits nothing.  The table is unchanged
\* and the generator goes on in both cases.
C14_UnknownFailureEmittedBlank ==
    [][\A params \in Failures :
           Takes(params) /\ Unknown(params) =>
               /\ IF /\ opts.include_failures
                     /\ (opts.resource_types = {}
                            \/ params.type \in opts.resource_types)
                  THEN emitted' = Append(emitted, FailedBlank(params))
                  ELSE emitted' = emitted
               /\ pending_requests' = pending_requests
               /\ net_pc' = "next"]_network

\* R1 is pending when a failure for R2, never requested, is emitted blank
C14_Witness ==
    /\ Len(consumed) = 2
    /\ IsRequest(consumed[1])
    /\ IsFailure(consumed[2])
    /\ consumed[2].requestId # consumed[1].requestId
    /\ DOMAIN pending_requests = {consumed[1].requestId}
    /\ Len(emitted) > 0
    /\ emitted[Len(emitted)] = FailedBlank(consumed[2])

(***************************************************************************)
(* Normalization of log events (log_event.py).  A payload is what          *)
(* json.loads made of a frame: every value carries its Python type, a      *)
(* dict holds Missing under the keys it does not have, and an operation    *)
(* on a value of the wrong type raises as Python does.                     *)
(***************************************************************************)
Py(t, v) == [tag |-> t, val |-> v]
Missing == Py("missing", "")
PyNone == Py("NoneType", "")
Str(s) == Py("str", s)
Num(n) == Py("int", n)
Bool(b) == Py("bool", b)
List(s) == Py("list", s)
Dict(d) == Py("dict", d)

\* d.get(key, default), for a dict d
Get(d, key, default) == IF d.val[key] = Missing THEN default ELSE d.val[key]
\* bool(x)
IsTrue(x) ==
    CASE x.tag = "list" -> Len(x.val) > 0
      [] x.tag = "str" -> x.val # ""
      [] x.tag = "int" -> x.val # 0
      [] x.tag \in {"NoneType", "missing"} -> FALSE
      [] OTHER -> TRUE

\* a console mapping that knows the method names only, not their aliases
MapWithoutAliases(console_type) ==
    CASE console_type \in {Str("debug")} -> "LogLevel.DEBUG"
      [] console_type \in {Str("warn")} -> "LogLevel.WARN"
      [] console_type \in {Str("error")} -> "LogLevel.ERROR"
      [] OTHER -> "LogLevel.INFO"
\* lines 218-242
_map_console_type_to_level(console_type) ==
    CASE console_type \in {Str("debug"), Str("trace")} -> "LogLevel.DEBUG"
      [] console_type \in {Str("warn"), Str("warning")} -> "LogLevel.WARN"
      [] console_type \in {Str("error"), Str("assert")} -> "LogLevel.ERROR"
      [] console_type \in {Str("log"), Str("info"), Str("dir"), Str("dirxml"),
                           Str("table"), Str("count"), Str("countReset"),
                           Str("time"), Str("timeEnd"), Str("timeLog"),
                           Str("group"), Str("groupCollapsed"), Str("groupEnd"),
                           Str("clear")} -> "LogLevel.INFO"
      [] OTHER -> "LogLevel.INFO"

\* lines 245-253
_map_log_level(level) ==
    CASE level = Str("verbose") -> "LogLevel.DEBUG"
      [] level = Str("info") -> "LogLevel.INFO"
      [] level = Str("warning") -> "LogLevel.WARN"
      [] level = Str("error") -> "LogLevel.ERROR"
      [] OTHER -> "LogLevel.INFO"

\* str(x), for the values a payload holds
PyStr(x) ==
    CASE x.tag = "str" -> x.val
      [] x.tag = "int" -> ToString(x.val)
      [] x.tag = "bool" -> IF x.val THEN "True" ELSE "False"
      [] x.tag = "NoneType" -> "None"

RECURSIVE Join(_, _)
\* sep.join(parts), for parts that are all str
Join(sep, parts) ==
    IF Len(parts) = 0 THEN ""
    ELSE IF Len(parts) = 1 THEN parts[1].val
    ELSE parts[1].val \o sep \o Join(sep, Tail(parts))

\* lines 290-308
_render_preview(preview) ==
    LET props == Get(preview, "properties", List(<<>>))
        overflow == IF IsTrue(Get(preview, "overflow", Bool(FALSE)))
                    THEN "..." ELSE ""
    IN  IF Get(preview, "subtype", Str("")) = Str("array")
        THEN Str("[" \o Join(", ", [i \in 1..Len(props.val) |->
                                        Get(props.val[i], "value", Str("?"))])
                     \o overflow \o "]")
        ELSE IF Get(preview, "type", Str("")) = Str("object")
        THEN Str("{" \o Join(", ", [i \in 1..Len(props.val) |->
                        Str(PyStr(Get(props.val[i], "name", Str("?"))) \o ": "
                            \o PyStr(Get(props.val[i], "value", Str("?"))))])
                     \o overflow \o "}")
        ELSE Get(preview, "description", Str(""))

\* lines 260-285: the part one argument appends
RenderArg(a) ==
    LET obj_type == Get(a, "type", Str(""))
        subtype == Get(a, "subtype", Str(""))
        \* s.lower(), for the strings str() makes of a payload value
        Lower(s) == CASE s = "True" -> "true"
                      [] s = "False" -> "false"
                      [] s = "None" -> "none"
                      [] OTHER -> s
    IN  CASE obj_type = Str("string") -> Get(a, "value", Str(""))
          [] obj_type = Str("number") -> Str(PyStr(Get(a, "value", Str(""))))
          [] obj_type = Str("boolean") ->
                 Str(Lower(PyStr(Get(a, "value", Str("")))))
          [] obj_type = Str("undefined") -> Str("undefined")
          [] subtype = Str("null") -> Str("null")
          [] obj_type = Str("object") ->
                 IF a.val["description"] # Missing
                 THEN a.val["description"]
                 ELSE IF a.val["preview"] # Missing
                 THEN _render_preview(a.val["preview"])
                 ELSE Str("[" \o (IF IsTrue(subtype) THEN subtype.val ELSE "object")
                              \o "]")
          [] obj_type = Str("function") -> Get(a, "description", Str("[function]"))
          [] obj_type = Str("symbol") -> Get(a, "description", Str("[symbol]"))
          [] OTHER -> Get(a, "description", Str(PyStr(Get(a, "value", Str("")))))

\* lines 314-323: the value one argument stores
ArgValue(a) ==
    LET obj_type == Get(a, "type", Str(""))
        subtype == Get(a, "subtype", Str(""))
    IN  IF obj_type \in {Str("string"), Str("number"), Str("boolean")}
        THEN Get(a, "value", PyNone)
        ELSE IF obj_type = Str("undefined") \/ subtype = Str("null")
        THEN PyNone
        ELSE Get(a, "description", Str("[" \o PyStr(obj_type) \o "]"))

\* lines 340-344; a datetime is whole seconds and microseconds
_parse_cdp_timestamp(timestamp, now) ==
    IF timestamp = PyNone THEN now
    ELSE [sec |-> timestamp.val \div 1000, micro |-> (timestamp.val % 1000) * 1000]

\* {}: a dict that has none of the keys
Empty(keys) == Dict([k \in keys |-> Missing])

\* lines 328-337, for call frames that are dicts
_format_stack_trace(call_frames) ==
    LET FrameLine(frame) ==
            Str("    at " \o PyStr(Get(frame, "functionName", Str("(anonymous)")))
                  \o " (" \o PyStr(Get(frame, "url", Str(""))) \o ":"
                  \o PyStr(Get(frame, "lineNumber", Num(0))) \o ":"
                  \o PyStr(Get(frame, "columnNumber", Num(0))) \o ")")
    IN  Str(Join("\n", [i \in 1..Len(call_frames.val) |->
                            FrameLine(call_frames.val[i])]))

\* SourceLocation(url=, line=, column=): pydantic takes a str and two ints
SourceLocation(url, line, column) ==
    IF url.tag = "str" /\ line.tag = "int" /\ column.tag = "int"
    THEN Return(Py("SourceLocation", [url |-> url.val, line |-> line.val,
                                      column |-> column.val]))
    ELSE Raise("ValidationError")

\* lines 94-100 and 132-138: the source of the first call frame, if any
FrameSource(call_frames) ==
    IF ~IsTrue(call_frames) THEN Return(PyNone)
    ELSE IF call_frames.val[1].tag # "dict" THEN Raise("AttributeError")
    ELSE SourceLocation(Get(call_frames.val[1], "url", Str("")),
                        Get(call_frames.val[1], "lineNumber", Num(0)),
                        Get(call_frames.val[1], "columnNumber", Num(0)))

\* cls(...): pydantic takes a str as text and an int or None as context id
LogEvent(ts, level, kind, text, args, source, stack, target, execution_context_id) ==
    IF text.tag = "str" /\ execution_context_id.tag \in {"int", "NoneType"}
    THEN Return([ts |-> ts, level |-> level, kind |-> kind, text |-> text.val,
                 args |-> args, source |-> source, stack |-> stack,
                 target |-> target,
                 execution_context_id |-> execution_context_id])
    ELSE Raise("ValidationError")

\* the failure of a step of normalization that comes before cls(...)
Failing(stack_trace, timestamp) ==
    IF stack_trace.tag # "dict" THEN "AttributeError"
    ELSE IF Get(stack_trace, "callFrames", List(<<>>)).tag # "list" THEN "TypeError"
    ELSE IF FrameSource(Get(stack_trace, "callFrames", List(<<>>))).outcome # "return"
    THEN FrameSource(Get(stack_trace, "callFrames", List(<<>>))).outcome
    ELSE IF timestamp.tag \notin {"NoneType", "int"} THEN "TypeError"
    ELSE ""

\* lines 78-113
from_console_api_called(event, target, now) ==
    LET args == Get(event, "args", List(<<>>))
        stack_trace == Get(event, "stackTrace", Empty({"callFrames"}))
        call_frames == Get(stack_trace, "callFrames", List(<<>>))
        ts == Get(event, "timestamp", PyNone)
    IN  IF args.tag # "list" THEN Raise("TypeError")
        ELSE IF \E i \in 1..Len(args.val) : args.val[i].tag # "dict"
        THEN Raise("AttributeError")
        ELSE IF \E i \in 1..Len(args.val) : RenderArg(args.val[i]).tag # "str"
        THEN Raise("TypeError")
        ELSE IF Failing(stack_trace, ts) # "" THEN Raise(Failing(stack_trace, ts))
        ELSE LogEvent(_parse_cdp_timestamp(ts, now),
                      _map_console_type_to_level(Get(event, "type", Str("log"))),
                      "LogKind.CONSOLE",
                      Str(Join(" ", [i \in 1..Len(args.val) |-> RenderArg(args.val[i])])),
                      [i \in 1..Len(args.val) |-> ArgValue(args.val[i])],
                      FrameSource(call_frames).value, PyNone, target,
                      Get(event, "executionContextId", PyNone))

\* lines 115-152
from_exception_thrown(event, target, now) ==
    LET exception_details == Get(event, "exceptionDetails", Empty({"exception", "stackTrace",
                                                           "executionContextId"}))
        exception == Get(exception_details, "exception",
                         Empty({"description", "value"}))
        stack_trace == Get(exception_details, "stackTrace", Empty({"callFrames"}))
        call_frames == Get(stack_trace, "callFrames", List(<<>>))
        ts == Get(event, "timestamp", PyNone)
    IN  IF exception_details.tag # "dict" \/ exception.tag # "dict"
        THEN Raise("AttributeError")
        ELSE IF Failing(stack_trace, ts) # "" THEN Raise(Failing(stack_trace, ts))
        ELSE LogEvent(_parse_cdp_timestamp(ts, now), "LogLevel.ERROR",
                      "LogKind.EXCEPTION",
                      Get(exception, "description",
                          Get(exception, "value", Str("Unknown exception"))),
                      <<>>, FrameSource(call_frames).value,
                      IF IsTrue(call_frames) THEN _format_stack_trace(call_frames)
                                             ELSE PyNone,
                      target, Get(exception_details, "executionContextId", PyNone))

\* lines 154-188
from_log_entry_added(event, target, now) ==
    LET entry == Get(event, "entry", Empty({"level", "text", "url", "lineNumber", "timestamp",
                                         "stackTrace"}))
        url == Get(entry, "url", Str(""))
        source == IF IsTrue(url)
                  THEN SourceLocation(url, Get(entry, "lineNumber", Num(0)), Num(0))
                  ELSE Return(PyNone)
        ts == Get(entry, "timestamp", PyNone)
        stack_trace == Get(entry, "stackTrace", Empty({"callFrames"}))
        call_frames == Get(stack_trace, "callFrames", List(<<>>))
    IN  IF entry.tag # "dict" THEN Raise("AttributeError")
        ELSE IF source.outcome # "return" THEN source
        ELSE IF ts.tag \notin {"NoneType", "int"} THEN Raise("TypeError")
        ELSE IF Failing(stack_trace, PyNone) \notin {"", "ValidationError"}
        THEN Raise(Failing(stack_trace, PyNone))
        ELSE LogEvent(_parse_cdp_timestamp(ts, now),
                      _map_log_level(Get(entry, "level", Str("info"))),
                      "LogKind.BROWSER_LOG", Get(entry, "text", Str("")), <<>>,
                      source.value,
                      IF IsTrue(call_frames) THEN _format_stack_trace(call_frames)
                                             ELSE PyNone,
                      target, PyNone)

(***************************************************************************)
(* The payloads normalization is given.                                    *)
(***************************************************************************)
RemoteObject(type, value, description) ==
    Dict([type |-> type, subtype |-> Missing, value |-> value,
          description |-> description, preview |-> Missing])
CallFrame(lineNumber) ==
    Dict([functionName |-> Str("f"), url |-> Str("app.js"),
          lineNumber |-> lineNumber, columnNumber |-> Num(5)])
StackTraces ==
    {Missing, PyNone, Empty({"callFrames"}),
     Dict([callFrames |-> List(<<CallFrame(Num(10))>>)]),
     Dict([callFrames |-> List(<<CallFrame(Missing)>>)]),
     Dict([callFrames |-> List(<<CallFrame(Str("x"))>>)])}
ConsoleEvents ==
    {Dict(d) : d \in
        [type : {Missing, PyNone} \cup {Str(t) : t \in
                    {"log", "info", "debug", "warn", "warning", "error", "assert",
                     "trace", "dir", "dirxml", "table", "count", "countReset",
                     "time", "timeEnd", "timeLog", "group", "groupCollapsed",
                     "groupEnd", "clear", "profile"}},
         args : {Missing, PyNone, List(<<>>),
                 List(<<RemoteObject(Str("string"), Str("a"), Missing)>>),
                 List(<<RemoteObject(Str("string"), Str("a"), Missing),
                        RemoteObject(Str("number"), Num(1), Missing)>>),
                 List(<<RemoteObject(Str("string"), Num(5), Missing)>>),
                 List(<<RemoteObject(Str("object"), Missing, Str("Obj"))>>)},
         stackTrace : StackTraces,
         timestamp : {Missing, Num(1500), Str("x")},
         executionContextId : {Missing, Num(7), Str("x")}]}
ExceptionEvents ==
    {Dict(d) : d \in
        [exceptionDetails : {Missing, PyNone} \cup {Dict(x) : x \in
             [exception : {Missing, PyNone} \cup {Dict(e) : e \in
                  [description : {Missing, Str("Error: x")},
                   value : {Missing, PyNone, Str("s"), Num(42)}]},
              stackTrace : StackTraces,
              executionContextId : {Missing, Num(7)}]},
         timestamp : {Missing, Num(1500)}]}
LogEntryEvents ==
    {Dict(d) : d \in
        [entry : {Missing, PyNone} \cup {Dict(e) : e \in
             [level : {Missing, Str("verbose"), Str("info"), Str("warning"),
                       Str("error"), Str("fatal")},
              text : {Missing, PyNone, Str("t")},
              url : {Missing, Str(""), Str("u")},
              lineNumber : {Missing, Num(3), Str("x")},
              timestamp : {Missing, Num(1500)},
              stackTrace : StackTraces]}]}
TargetInfos == {PyNone, Py("TargetInfo", [id |-> "T", title |-> "t", url |-> "u"])}
\* datetime.now(UTC) at the time of the call
Now == [sec |-> 2, micro |-> 0]

(***************************************************************************)
(* model_dump_json and model_validate_json, as pydantic documents them for *)
(* the fields LogEvent declares: a datetime is written as ISO 8601 text,   *)
(* an enum member as its value, None as null, a nested model as an object. *)
(***************************************************************************)
Iso(ts) == ToString(ts.sec) \o "." \o ToString(ts.micro)
\* lines 14-28
EnumValue(member) ==
    CASE member = "LogLevel.DEBUG" -> "debug"
      [] member = "LogLevel.INFO" -> "info"
      [] member = "LogLevel.WARN" -> "warn"
      [] member = "LogLevel.ERROR" -> "error"
      [] member = "LogKind.CONSOLE" -> "console"
      [] member = "LogKind.EXCEPTION" -> "exception"
      [] member = "LogKind.BROWSER_LOG" -> "browser_log"

\* a Python value as JSON, and a JSON value as the Python value of its type
ToJson(x) ==
    CASE x.tag = "str" -> Py("string", x.val)
      [] x.tag = "int" -> Py("number", x.val)
      [] x.tag = "bool" -> Py("boolean", x.val)
      [] x.tag = "NoneType" -> Py("null", "")
      [] x.tag = "SourceLocation" ->
             Py("object", [url |-> Py("string", x.val.url),
                           line |-> Py("number", x.val.line),
                           column |-> Py("number", x.val.column)])
      [] x.tag = "TargetInfo" ->
             Py("object", [id |-> Py("string", x.val.id),
                           title |-> Py("string", x.val.title),
                           url |-> Py("string", x.val.url)])
FromJson(j, model) ==
    CASE j.tag = "string" -> Str(j.val)
      [] j.tag = "number" -> Num(j.val)
      [] j.tag = "boolean" -> Bool(j.val)
      [] j.tag = "null" -> PyNone
      [] j.tag = "object" -> Py(model, [k \in DOMAIN j.val |-> j.val[k].val])

model_dump_json(e) ==
    [ts |-> Py("string", Iso(e.ts)),
     level |-> Py("string", EnumValue(e.level)),
     kind |-> Py("string", EnumValue(e.kind)),
     text |-> Py("string", e.text),
     args |-> Py("array", [i \in 1..Len(e.args) |-> ToJson(e.args[i])]),
     source |-> ToJson(e.source),
     stack |-> ToJson(e.stack),
     target |-> ToJson(e.target),
     execution_context_id |-> ToJson(e.execution_context_id)]

model_validate_json(doc) ==
    LET EnumMember(members, value) == CHOOSE m \in members : EnumValue(m) = value
        FromIso(s) == CHOOSE ts \in [sec : 0..Now.sec, micro : {0, 500000}] :
                          Iso(ts) = s
    IN
    [ts |-> FromIso(doc.ts.val),
     level |-> EnumMember({"LogLevel.DEBUG", "LogLevel.INFO", "LogLevel.WARN",
                           "LogLevel.ERROR"}, doc.level.val),
     kind |-> EnumMember({"LogKind.CONSOLE", "LogKind.EXCEPTION",
                          "LogKind.BROWSER_LOG"}, doc.kind.val),
     text |-> doc.text.val,
     args |-> [i \in 1..Len(doc.args.val) |-> FromJson(doc.args.val[i], "dict")],
     source |-> FromJson(doc.source, "SourceLocation"),
     stack |-> FromJson(doc.stack, "str"),
     target |-> FromJson(doc.target, "TargetInfo"),
     execution_context_id |-> FromJson(doc.execution_context_id, "int")]

\* a to_ndjson that leaves the stack out
DumpWithoutStack(e) == [model_dump_json(e) EXCEPT !.stack = Py("null", "")]
\* lines 190-192
to_ndjson(e) == model_dump_json(e)

(***************************************************************************)
(* A raw event is normalized; the LogEvent returned, if any, is written    *)
(* out and read back.                                                      *)
(***************************************************************************)
LogInit ==
    /\ SessionIdle
    /\ NetworkIdle
    /\ arg \in ([fn : {"from_console_api_called"}, event : ConsoleEvents,
                 target : TargetInfos]
                \cup [fn : {"from_exception_thrown"}, event : ExceptionEvents,
                      target : TargetInfos]
                \cup [fn : {"from_log_entry_added"}, event : LogEntryEvents,
                      target : TargetInfos])
    /\ ret = NotReturned
    /\ wire = <<>>
    /\ restored = <<>>

Normalize ==
    /\ ret = NotReturned
    /\ ret' = CASE arg.fn = "from_console_api_called" ->
                       from_console_api_called(arg.event, arg.target, Now)
                [] arg.fn = "from_exception_thrown" ->
                       from_exception_thrown(arg.event, arg.target, Now)
                [] arg.fn = "from_log_entry_added" ->
                       from_log_entry_added(arg.event, arg.target, Now)
    /\ UNCHANGED <<arg, wire, restored, network, vars>>

Serialize ==
    /\ ret.outcome = "return"
    /\ wire = <<>>
    /\ wire' = <<to_ndjson(ret.value)>>
    /\ UNCHANGED <<arg, ret, restored, network, vars>>

Deserialize ==
    /\ wire # <<>>
    /\ restored = <<>>
    /\ restored' = <<model_validate_json(wire[1])>>
    /\ UNCHANGED <<arg, ret, wire, network, vars>>

LogNext == Normalize \/ Serialize \/ Deserialize

SpecLog == LogInit /\ [][LogNext]_<<vars, aside>>

(***************************************************************************)
(* Properties of normalization.                                            *)
(***************************************************************************)
Normalized == ret.outcome = "return"
ConsoleType == arg.event.val.type

\* C15: a console call of kind log or info gets level info, debug or trace
\* debug, warn or warning warn, error or assert error, and every other kind,
\* an unknown one and a missing one included, info.
C15_ConsoleLevel ==
    arg.fn = "from_console_api_called" /\ Normalized =>
        ret.value.level =
            CASE ConsoleType \in {Str("log"), Str("info")} -> "LogLevel.INFO"
              [] ConsoleType \in {Str("debug"), Str("trace")} -> "LogLevel.DEBUG"
              [] ConsoleType \in {Str("warn"), Str("warning")} -> "LogLevel.WARN"
              [] ConsoleType \in {Str("error"), Str("assert")} -> "LogLevel.ERROR"
              [] OTHER -> "LogLevel.INFO"

\* console.assert has been normalized to level error
C15_Witness ==
    /\ arg.fn = "from_console_api_called"
    /\ Normalized
    /\ ConsoleType = Str("assert")
    /\ ret.value.level = "LogLevel.ERROR"

C19_NeverRaises == ret.outcome \in {"pending", "return"}

(***************************************************************************)
(* Frames: find_iframe_context over the frame tree Page.getFrameTree       *)
(* returned.  The id of a frame is its path from the root (the positions   *)
(* of its ancestors and itself among their siblings); a result is an       *)
(* Optional id.                                                            *)
(***************************************************************************)
MaxChildren == 2
MaxDepth == 2

RECURSIVE FrameTrees(_, _)
\* the frame trees below the frame with this id, at most depth levels deep
FrameTrees(id, depth) ==
    LET Below(i) == FrameTrees(Append(id, i), depth - 1)
        Children(n) == IF depth = 0 /\ n > 0 THEN {}
                       ELSE {cs \in [1..n -> UNION {Below(i) : i \in 1..n}] :
                                \A i \in 1..n : cs[i] \in Below(i)}
    IN  {[frame |-> [id |-> id, url |-> u], childFrames |-> cs] :
            u \in {<<"x">>, <<"y">>},
            cs \in UNION {Children(n) : n \in 0..MaxChildren}}

RECURSIVE CollectFrom(_, _)
\* lines 451-454, from the i-th child on
CollectFrom(frame_tree, i) ==
    IF i > Len(frame_tree.childFrames) THEN <<>>
    ELSE <<frame_tree.childFrames[i].frame>>
             \o CollectFrom(frame_tree.childFrames[i], 1)
             \o CollectFrom(frame_tree, i + 1)

\* a collector that appends the children of a frame before their descendants
CollectChildrenFirst(frame_tree) ==
    LET kids == frame_tree.childFrames
        RECURSIVE Below(_)
        Below(i) == IF i > Len(kids) THEN <<>>
                    ELSE CollectFrom(kids[i], 1) \o Below(i + 1)
    IN  [i \in 1..Len(kids) |-> kids[i].frame] \o Below(1)
\* lines 445-454
_collect_child_frames(frame_tree) == CollectFrom(frame_tree, 1)

\* lines 430-443; frames[index] counts from the end for a negative index and
\* raises IndexError outside -len..len-1
find_iframe_context(frame_tree, url_filter, index) ==
    LET iframe_frames == _collect_child_frames(frame_tree)
        n == Len(iframe_frames)
        Matches(k) == Contains(url_filter.v, iframe_frames[k].url)
    IN  IF Truthy(url_filter)
        THEN IF \E k \in 1..n : Matches(k)
             THEN Return(Some(iframe_frames[CHOOSE k \in 1..n :
                      Matches(k) /\ \A j \in 1..(k - 1) : ~Matches(j)].id))
             ELSE Return(Absent)
        ELSE IF index < n
        THEN IF index >= 0 THEN Return(Some(iframe_frames[index + 1].id))
             ELSE IF index >= -n THEN Return(Some(iframe_frames[n + index + 1].id))
             ELSE Raise("IndexError")
        ELSE Return(Absent)

FramesInit ==
    /\ SessionIdle
    /\ NetworkIdle
    /\ arg \in [frame_tree : FrameTrees(<<>>, MaxDepth) ,
                url_filter : {Absent, Some(<<>>), Some(<<"y">>), Some(<<"z">>)},
                index : (-2)..(MaxChildren * (MaxChildren + 1))]
    /\ ret = NotReturned
    /\ wire = <<>>
    /\ restored = <<>>

FindIframeContext ==
    /\ ret = NotReturned
    /\ ret' = find_iframe_context(arg.frame_tree, arg.url_filter, arg.index)
    /\ UNCHANGED <<arg, wire, restored, network, vars>>

FramesNext == FindIframeContext

SpecFrames == FramesInit /\ [][FramesNext]_<<vars, aside>>

(***************************************************************************)
(* Properties of the frame search.                                         *)
(***************************************************************************)
RECURSIVE HasPath(_, _)
\* the tree has a frame at this path below its root
HasPath(tree, p) ==
    \/ Len(p) = 0
    \/ /\ p[1] <= Len(tree.childFrames)
       /\ HasPath(tree.childFrames[p[1]], Tail(p))
NonRoot ==
    {p \in UNION {[1..d -> 1..MaxChildren] : d \in 1..MaxDepth} :
        HasPath(arg.frame_tree, p)}
\* p is an ancestor of q, or in the subtree of an earlier sibling of one of q's
\* ancestors or of q
Before(p, q) ==
    \/ Len(p) < Len(q) /\ SubSeq(q, 1, Len(p)) = p
    \/ \E k \in 1..Len(p) :
           /\ k <= Len(q)
           /\ SubSeq(p, 1, k - 1) = SubSeq(q, 1, k - 1)
           /\ p[k] < q[k]
Searched == ret.outcome # "pending"

\* C17: the frames are collected depth-first in pre-order, a frame before its
\* descendants and those before its next sibling, and find_iframe_context
\* with an index i in 0..n-1 and no url_filter returns the id of the frame
\* that exactly i non-root frames precede in that order.
C17_PreOrderIndex ==
    /\ Searched /\ ~Truthy(arg.url_filter)
    /\ arg.index >= 0 /\ arg.index < Cardinality(NonRoot)
    => /\ ret.outcome = "return"
       /\ ret.value.some
       /\ ret.value.v \in NonRoot
       /\ Cardinality({p \in NonRoot : Before(p, ret.value.v)}) = arg.index

\* root -> [childA, childB -> [grandchild]] and index 2 give the grandchild
C17_Witness ==
    /\ Searched
    /\ arg.url_filter = Absent
    /\ NonRoot = {<<1>>, <<2>>, <<2, 1>>}
    /\ arg.index = 2
    /\ ret = Return(Some(<<2, 1>>))

\* C18: find_iframe_context returns None, raising nothing, when there is no
\* url_filter and the index is outside 0..n-1 (negative indexes and n = 0
\* included) and when a url_filter matches no frame; with a url_filter the
\* first frame in flattened order whose url contains it is returned.
C18_NoneOutsideRange ==
    LET frames == _collect_child_frames(arg.frame_tree)
        Hit == {k \in 1..Len(frames) : Contains(arg.url_filter.v, frames[k].url)}
    IN  Searched =>
            IF Truthy(arg.url_filter)
            THEN IF Hit = {}
                 THEN ret = Return(Absent)
                 ELSE ret = Return(Some(frames[CHOOSE k \in Hit :
                                                   \A j \in Hit : k <= j].id))
            ELSE arg.index < 0 \/ arg.index >= Len(frames) => ret = Return(Absent)

\* the response fails an active status filter or an active resource-type filter
Filtered(params) ==
    \/ opts.status_filter # {} /\ params.status \notin opts.status_filter
    \/ opts.resource_types # {} /\ params.type \notin opts.resource_types
Without(request_id) ==
    [k \in DOMAIN pending_requests \ {request_id} |-> pending_requests[k]]

\* C20: a responseReceived that an active status filter or an active
\* resource-type filter rejects emits nothing and leaves the pending table as
\* it is; one that passes removes the entry of its requestId: at once and with
\* nothing emitted when include_responses is false, and otherwise when the
\* generator is resumed after it has yielded the response event.
C20_FilteredResponseKeepsEntry ==
    [][/\ \A params \in Responses :
              Takes(params) =>
                  IF Filtered(params)
                  THEN /\ emitted' = emitted
                       /\ pending_requests' = pending_requests
                       /\ net_pc' = "next"
                  ELSE IF opts.include_responses
                  THEN /\ Len(emitted') = Len(emitted) + 1
                       /\ emitted'[Len(emitted')].kind = "response"
                       /\ emitted'[Len(emitted')].request_id = params.requestId
                       /\ net_pc' = "yielded"
                  ELSE /\ emitted' = emitted
                       /\ pending_requests' = Without(params.requestId)
                       /\ net_pc' = "next"
       /\ net_pc = "yielded" /\ net_pc' = "next" =>
              /\ emitted' = emitted
              /\ pending_requests' = Without(consumed[Len(consumed)].requestId)
      ]_network

\* the request R is still pending after a response for R failed the status filter
C20_Witness ==
    /\ opts.status_filter = {404}
    /\ Len(consumed) = 2
    /\ IsRequest(consumed[1])
    /\ IsResponse(consumed[2])
    /\ consumed[2].requestId = consumed[1].requestId
    /\ consumed[2].status = 200
    /\ consumed[1].requestId \in DOMAIN pending_requests
    /\ \A k \in 1..Len(emitted) : emitted[k].kind # "response"

\* C21: a requestWillBeSent whose resource type an active type filter excludes
\* emits nothing and adds no entry to the pending table; one that passes is
\* recorded (url, method, type, frame id) under its requestId, whether or not
\* include_requests lets the request event out.
C21_RequestRecordedUnlessFiltered ==
    [][\A params \in Requests :
           Takes(params) =>
               IF opts.resource_types # {} /\ params.type \notin opts.resource_types
               THEN /\ emitted' = emitted
                    /\ pending_requests' = pending_requests
               ELSE /\ DOMAIN pending_requests' =
                           DOMAIN pending_requests \cup {params.requestId}
                    /\ \A k \in DOMAIN pending_requests \ {params.requestId} :
                           pending_requests'[k] = pending_requests[k]
                    /\ pending_requests'[params.requestId] =
                           [url |-> params.url, method |-> params.httpMethod,
                            type |-> params.type, frame_id |-> params.frameId]
                    /\ IF opts.include_requests
                       THEN /\ Len(emitted') = Len(emitted) + 1
                            /\ emitted'[Len(emitted')].kind = "request"
                            /\ emitted'[Len(emitted')].request_id = params.requestId
                       ELSE emitted' = emitted
      ]_network

\* with include_requests off and a filter on XHR, an XHR request is recorded
\* silently and an Image request after it leaves no trace
C21_Witness ==
    /\ ~opts.include_requests
    /\ opts.resource_types = {"XHR"}
    /\ Len(consumed) = 2
    /\ IsRequest(consumed[1]) /\ consumed[1].type = "XHR"
    /\ consumed[1].requestId = "R1"
    /\ IsRequest(consumed[2]) /\ consumed[2].type = "Image"
    /\ consumed[2].requestId = "R2"
    /\ DOMAIN pending_requests = {"R1"}
    /\ pending_requests["R1"].url = consumed[1].url
    /\ emitted = <<>>

\* the entry that the requests, responses and failures consumed so far leave
\* for request_id: the position of the request that recorded it, 0 when none
Records(i, request_id) ==
    /\ IsRequest(consumed[i])
    /\ consumed[i].requestId = request_id
    /\ ~(opts.resource_types # {} /\ consumed[i].type \notin opts.resource_types)
Forgets(j, request_id) ==
    /\ consumed[j].requestId = request_id
    /\ \/ IsFailure(consumed[j])
       \/ IsResponse(consumed[j]) /\ ~Filtered(consumed[j])
LastRecorded(request_id) ==
    LET live == {i \in 1..Len(consumed) :
                    /\ Records(i, request_id)
                    /\ \A j \in (i+1)..Len(consumed) : ~Forgets(j, request_id)}
    IN IF live = {} THEN 0 ELSE CHOOSE i \in live : \A k \in live : k <= i

\* C22: a loadingFailed always removes the pending entry of its requestId,
\* whatever the resource-type filter says; when the failure passes the filter
\* and failures are included, the failed event carries the url, method and
\* frame id of the most recent recorded request of that requestId, and the
\* error text of the failure; otherwise nothing is emitted.
C22_FailureForgetsThenFilters ==
    [][\A params \in Failures :
           Takes(params) =>
               /\ pending_requests' = Without(params.requestId)
               /\ IF /\ opts.include_failures
                     /\ (opts.resource_types = {}
                            \/ params.type \in opts.resource_types)
                  THEN /\ Len(emitted') = Len(emitted) + 1
                       /\ SubSeq(emitted', 1, Len(emitted)) = emitted
                       /\ LET e == emitted'[Len(emitted')]
                              i == LastRecorded(params.requestId)
                          IN /\ e.kind = "failed"
                             /\ e.request_id = params.requestId
                             /\ e.error_text = params.errorText
                             /\ i # 0 =>
                                    /\ e.url = consumed[i].url
                                    /\ e.method = consumed[i].httpMethod
                                    /\ e.frame_id = consumed[i].frameId
                  ELSE emitted' = emitted
      ]_network

\* R1 was requested with U1 and then with U2; its failure carries U2 and
\* forgets the request
C22_Witness ==
    /\ opts.include_failures
    /\ Len(consumed) = 3
    /\ IsRequest(consumed[1]) /\ consumed[1].url = "U1"
    /\ IsRequest(consumed[2]) /\ consumed[2].url = "U2"
    /\ consumed[1].requestId = consumed[2].requestId
    /\ IsFailure(consumed[3])
    /\ consumed[3].requestId = consumed[1].requestId
    /\ LastRecorded(consumed[3].requestId) = 0
    /\ pending_requests = EmptyMap
    /\ emitted # <<>>
    /\ emitted[Len(emitted)].kind = "failed"
    /\ emitted[Len(emitted)].url = "U2"
    /\ emitted[Len(emitted)].error_text = "ERR_FAILED"

(***************************************************************************)
(* stream_watch: clicks, messages, requests and navigations, made from the *)
(* events of the session.  It keeps no table; the variables of the         *)
(* correlator hold its options, the events it has taken and the events it  *)
(* has yielded.                                                            *)
(***************************************************************************)
\* s.startswith(prefix)
StartsWith(s, prefix) ==
    Len(s) >= Len(prefix) /\ SubSeq(s, 1, Len(prefix)) = prefix

\* a constructor that takes every console text for a click
ClickFromAnyText(log_event) ==
    <<[WatchEvent("click", "", Null, None, [type |-> Null, requestId |-> Null],
                  Null, Null) EXCEPT !.element = log_event.text]>>
\* log_event.py lines 443-458; <<>> is None
from_click_console(log_event) ==
    IF ~StartsWith(log_event.text, "[DEVLOG_CLICK]") THEN <<>>
    ELSE <<[WatchEvent("click", "", Null, None, [type |-> Null, requestId |-> Null],
                       Null, Null) EXCEPT !.element = log_event.text]>>

\* log_event.py lines 460-475
from_message_console(log_event) ==
    IF ~StartsWith(log_event.text, "[DEVLOG_MESSAGE]") THEN <<>>
    ELSE <<[WatchEvent("message", "", Null, None, [type |-> Null, requestId |-> Null],
                       Null, Null) EXCEPT !.element = log_event.text]>>

\* log_event.py lines 427-441
from_frame_navigated(params) ==
    WatchEvent("navigation", params.url, Null, None,
               [type |-> Null, requestId |-> Null], Null, Null)

\* console calls whose arguments are strings, and one whose string argument
\* carries a number for its value
WatchConsoleEvents ==
    {[method |-> "Runtime.consoleAPICalled",
      params |-> Dict([type |-> Str("log"),
                       args |-> List([i \in 1..Len(values) |->
                                   RemoteObject(Str("string"), values[i], Missing)]),
                       stackTrace |-> Missing, timestamp |-> Num(1500),
                       executionContextId |-> Missing])] :
        values \in {<<>>, <<Str("a")>>, <<Num(5)>>,
                    <<Str("[DEVLOG_CLICK]"), Str("a")>>,
                    <<Str("[DEVLOG_MESSAGE]"), Str("a")>>,
                    <<Str("a"), Str("[DEVLOG_CLICK]")>>,
                    <<Str("[DEVLOG_"), Str("MESSAGE]")>>,
                    <<Str("[DEVLOG_CLICK][DEVLOG_MESSAGE]")>>}}

\* requests of two resource types: first requests, and requests that carry an
\* empty prior response, one without a status and one with status 302
WatchRequests ==
    {[r EXCEPT !.type = type, !.redirectResponse = redirect_response] :
        r \in {q \in Requests : q.requestId = "R1" /\ q.type = "XHR"},
        type \in {"Document", "XHR"},
        redirect_response \in
            {NoRedirect, [given |-> TRUE, keys |-> {}, status |-> None],
             [given |-> TRUE, keys |-> {"url"}, status |-> None],
             [given |-> TRUE, keys |-> {"url", "status"}, status |-> 302]}}

\* frame.get("parentId") is missing, empty or the id of the parent
Navigations ==
    [method : {"Page.frameNavigated"},
     parentId : {Absent, Some(<<>>), Some(<<"P">>)}, url : {"U1"}]

\* stream_watch(clicks, network, document_only) is called
WatchInit ==
    /\ SessionIdle
    /\ CallIdle
    /\ opts \in [clicks : BOOLEAN, network : BOOLEAN, document_only : BOOLEAN]
    /\ pending_requests = EmptyMap
    /\ consumed = <<>>
    /\ emitted = <<>>
    /\ net_pc = "next"

\* cdp_client.py lines 282-290; an exception of the normalization ends the
\* generator
ConsoleAPICalled(event) ==
    /\ Take(event)
    /\ LET log_event == from_console_api_called(event.params, PyNone, Now)
       IN  IF log_event.outcome # "return"
           THEN /\ net_pc' = "raised"
                /\ UNCHANGED emitted
           ELSE /\ emitted' = emitted
                        \o (IF opts.clicks THEN from_click_console(log_event.value)
                            ELSE <<>>)
                        \o from_message_console(log_event.value)
                /\ UNCHANGED net_pc
    /\ UNCHANGED pending_requests

\* a watcher that lets requests of every type through
WatchRequestOfAnyType(params) ==
    /\ Take(params)
    /\ IF opts.network
       THEN Yield(from_request_will_be_sent(params))
       ELSE UNCHANGED emitted
    /\ UNCHANGED <<pending_requests, net_pc>>
\* cdp_client.py lines 292-296
WatchRequestWillBeSent(params) ==
    /\ Take(params)
    /\ IF opts.network /\ ~(opts.document_only /\ params.type # "Document")
       THEN Yield(from_request_will_be_sent(params))
       ELSE UNCHANGED emitted
    /\ UNCHANGED <<pending_requests, net_pc>>

\* a watcher that takes every frame for a top-level frame
FrameNavigatedAnyFrame(params) ==
    /\ Take(params)
    /\ IF opts.network
       THEN Yield(from_frame_navigated(params))
       ELSE UNCHANGED emitted
    /\ UNCHANGED <<pending_requests, net_pc>>
\* cdp_client.py lines 298-302
FrameNavigated(params) ==
    /\ Take(params)
    /\ IF opts.network /\ ~Truthy(params.parentId)
       THEN Yield(from_frame_navigated(params))
       ELSE UNCHANGED emitted
    /\ UNCHANGED <<pending_requests, net_pc>>

WatchNext ==
    \/ \E event \in WatchConsoleEvents : ConsoleAPICalled(event)
    \/ \E params \in WatchRequests : WatchRequestWillBeSent(params)
    \/ \E params \in Navigations : FrameNavigated(params)
    \/ \E params \in OtherEvents : Ignored(params)

SpecWatch == WatchInit /\ [][WatchNext]_<<vars, aside>>

(***************************************************************************)
(* Properties of stream_watch.                                             *)
(***************************************************************************)
\* the events the step has yielded
Yielded == SubSeq(emitted', Len(emitted) + 1, Len(emitted'))
YieldedKinds == {Yielded[k].kind : k \in 1..Len(Yielded)}
\* the text the normalization renders for a console call, "" when it raises
Rendered(event) ==
    LET log_event == from_console_api_called(event.params, PyNone, Now)
    IN  IF log_event.outcome = "return" THEN log_event.value.text ELSE ""
\* the request carries an embedded prior response
Redirected(params) ==
    params.redirectResponse.given /\ params.redirectResponse.keys # {}

\* C23: a requestWillBeSent that carries an embedded prior response is emitted
\* as a redirect event whose status is the status of the prior response (none
\* when that response has no status); one without it, or with an empty one, is
\* emitted as a request event with no status; the url of the event is the url
\* of the request in both cases.
C23_RedirectOrRequest ==
    [][\A params \in WatchRequests :
           Takes(params) /\ emitted' # emitted =>
               /\ Len(Yielded) = 1
               /\ Yielded[1].url = params.url
               /\ Yielded[1].request_id = params.requestId
               /\ IF Redirected(params)
                  THEN /\ Yielded[1].kind = "redirect"
                       /\ Yielded[1].status =
                              (IF "status" \in params.redirectResponse.keys
                               THEN params.redirectResponse.status ELSE None)
                  ELSE /\ Yielded[1].kind = "request"
                       /\ Yielded[1].status = None]_network

\* a first request of U1 was emitted as a request, and the request of U2 that
\* carries a prior response with status 302 as a redirect with that status
C23_Witness ==
    /\ Len(consumed) = 2
    /\ Len(emitted) = 2
    /\ IsRequest(consumed[1]) /\ ~Redirected(consumed[1])
    /\ IsRequest(consumed[2]) /\ Redirected(consumed[2])
    /\ consumed[2].redirectResponse.status = 302
    /\ consumed[2].url = "U2"
    /\ emitted[1].kind = "request" /\ emitted[1].status = None
    /\ emitted[2].kind = "redirect" /\ emitted[2].status = 302
    /\ emitted[2].url = "U2"

\* C24: a frameNavigated notification yields a navigation event if and only
\* if network watching is on and the frame has no parent id (none or an empty
\* one); the navigation of a nested frame yields nothing, and no other event
\* yields a navigation event.
C24_TopLevelNavigationOnly ==
    [][/\ \A params \in Navigations :
              Takes(params) =>
                  IF opts.network /\ (~params.parentId.some \/ params.parentId.v = <<>>)
                  THEN /\ YieldedKinds = {"navigation"}
                       /\ Len(Yielded) = 1
                       /\ Yielded[1].url = params.url
                  ELSE emitted' = emitted
       /\ "navigation" \in YieldedKinds =>
              consumed'[Len(consumed')].method = "Page.frameNavigated"
      ]_network

\* with network watching on, the navigation of a nested frame left no event
\* and the navigation of a top-level frame after it left one
C24_Witness ==
    /\ opts.network
    /\ Len(consumed) = 2
    /\ consumed[1].method = "Page.frameNavigated"
    /\ consumed[1].parentId = Some(<<"P">>)
    /\ consumed[2].method = "Page.frameNavigated"
    /\ consumed[2].parentId = Absent
    /\ Len(emitted) = 1
    /\ emitted[1].kind = "navigation"

\* C25: a click event is yielded only for a console call whose rendered text
\* starts with "[DEVLOG_CLICK]" and a message event only for one whose text
\* starts with "[DEVLOG_MESSAGE]"; a console call whose text starts with
\* neither yields nothing, and no other event yields a click or a message.
C25_MarkersOnly ==
    [][/\ \A event \in WatchConsoleEvents :
              Takes(event) =>
                  /\ "click" \in YieldedKinds =>
                         StartsWith(Rendered(event), "[DEVLOG_CLICK]")
                  /\ "message" \in YieldedKinds =>
                         StartsWith(Rendered(event), "[DEVLOG_MESSAGE]")
                  /\ YieldedKinds \subseteq {"click", "message"}
                  /\ \A k \in 1..Len(Yielded) : Yielded[k].element = Rendered(event)
                  /\ (/\ ~StartsWith(Rendered(event), "[DEVLOG_CLICK]")
                      /\ ~StartsWith(Rendered(event), "[DEVLOG_MESSAGE]"))
                         => emitted' = emitted
       /\ YieldedKinds \cap {"click", "message"} # {} =>
              consumed'[Len(consumed')].method = "Runtime.consoleAPICalled"
      ]_network

\* a click, then a text with the marker in second place, then a message: two
\* events
C25_Witness ==
    /\ opts.clicks
    /\ Len(consumed) = 3
    /\ \A i \in 1..3 : consumed[i].method = "Runtime.consoleAPICalled"
    /\ Rendered(consumed[1]) = "[DEVLOG_CLICK] a"
    /\ Rendered(consumed[2]) = "a [DEVLOG_CLICK]"
    /\ Rendered(consumed[3]) = "[DEVLOG_MESSAGE] a"
    /\ Len(emitted) = 2
    /\ emitted[1].kind = "click"
    /\ emitted[2].kind = "message"

\* C26, as stated: with document_only on a request of a type other than
\* Document yields nothing, so that every request or redirect event has type
\* Document; with document_only off, requests of every type are emitted.
C26_DocumentOnlyElseAll ==
    [][\A params \in WatchRequests :
           Takes(params) =>
               IF opts.document_only
               THEN /\ params.type # "Document" => emitted' = emitted
                    /\ \A k \in 1..Len(Yielded) :
                           Yielded[k].resource_type = "Document"
               ELSE /\ Len(Yielded) = 1
                    /\ Yielded[1].kind \in {"request", "redirect"}
                    /\ Yielded[1].resource_type = params.type]_network

\* C26, amended: the requests of every type are emitted with document_only
\* off when network watching is on; with network watching off no request is
\* emitted at all.  With document_only on, as stated.
C26_DocumentOnlyElseAllWatched ==
    [][\A params \in WatchRequests :
           Takes(params) =>
               IF ~opts.network
               THEN emitted' = emitted
               ELSE IF opts.document_only
               THEN /\ params.type # "Document" => emitted' = emitted
                    /\ params.type = "Document" => Len(Yielded) = 1
                    /\ \A k \in 1..Len(Yielded) :
                           /\ Yielded[k].kind \in {"request", "redirect"}
                           /\ Yielded[k].resource_type = "Document"
               ELSE /\ Len(Yielded) = 1
                    /\ Yielded[1].kind \in {"request", "redirect"}
                    /\ Yielded[1].resource_type = params.type]_network

\* with document_only on, an XHR request left no event and a Document request
\* after it left one
C26_Witness ==
    /\ opts.network /\ opts.document_only
    /\ Len(consumed) = 2
    /\ IsRequest(consumed[1]) /\ consumed[1].type = "XHR"
    /\ IsRequest(consumed[2]) /\ consumed[2].type = "Document"
    /\ Len(emitted) = 1
    /\ emitted[1].resource_type = "Document"

(***************************************************************************)
(* Properties of the session's teardown, timeouts and closed channels.     *)
(***************************************************************************)
\* disconnect() closes the channel in this step
ClosesChannel == dpc # "awaitClose" /\ dpc' = "awaitClose"
\* disconnect() returns in this step
DisconnectReturns == disconnects' = disconnects + 1
Running == {ch \in Channels : recv[ch] = "running"}
TimedOut == {c \in 1..Len(calls) : calls[c].outcome = "CDPConnectionError"}

\* C27: disconnect() closes the channel only when the receive task it has
\* cancelled has stopped, and clears the target binding and the pending table
\* only when the channel is closed, the binding and the table being untouched
\* until then; a receive task that disconnect() has cancelled reads no
\* message from then on, so none after disconnect() has returned.
C27_TeardownOrder ==
    [][/\ ClosesChannel =>
              /\ \A ch \in Channels : ch = recv_task => recv[ch] # "running"
              /\ recv_task' = None
              /\ chan[ws] # "none" /\ chan'[ws] = "closed"
              /\ current_target' = current_target
              /\ current_target' # NoTarget
              /\ pending_commands' = pending_commands
              /\ ws' = ws
       /\ DisconnectReturns =>
              /\ ws # None => chan[ws] = "closed" /\ recv[ws] # "running"
              /\ ws' = None
              /\ recv_task' = None
              /\ current_target' = NoTarget
              /\ pending_commands' = EmptyMap
       /\ \A ch \in Channels :
              recv[ch] = "cancelled" =>
                  /\ recv'[ch] = "cancelled"
                  /\ ~\E raw \in RawFrames : ReceiveLoop(ch, raw)
      ]_vars

\* a session that has read a frame while a command was pending has been
\* disconnected: task cancelled, channel closed, binding and table cleared
C27_Witness ==
    /\ nconn = 1
    /\ dpc = "idle"
    /\ disconnects = 1
    /\ nread >= 1
    /\ Len(calls) >= 1
    /\ recv[1] = "cancelled"
    /\ chan[1] = "closed"
    /\ ws = None /\ recv_task = None
    /\ current_target = NoTarget
    /\ pending_commands = EmptyMap

\* C28: at every moment at most one receive task runs, it is the one the
\* session references, on the channel the session holds, and none runs when
\* the session is unbound.
C28_SingleReceiveTask ==
    /\ Cardinality(Running) <= 1
    /\ \A ch \in Running : recv_task = ch /\ ws = ch /\ chan[ch] = "open"
    /\ current_target = NoTarget => Running = {}

\* C29: the step in which a send_command times out (the timer cancels the
\* future, the handler pops the slot and raises) leaves the channel, the
\* receive task, the target binding and the event queue as they are; and a
\* frame read when a command has timed out is routed as ever: an event is
\* put on the queue, a reply completes the pending command of its id.
C29_TimeoutKeepsSession ==
    [][/\ (\E c \in 1..Len(calls) :
               \/ calls[c].fut.state # "cancelled" /\ calls'[c].fut.state = "cancelled"
               \/ c \notin TimedOut /\ calls'[c].outcome = "CDPConnectionError") =>
              /\ UNCHANGED <<ws, recv_task, current_target, event_queue, chan, recv,
                             yielded>>
              /\ ws # None /\ chan[ws] = "open" /\ recv[recv_task] = "running" =>
                     ENABLED (\E raw \in RawFrames : ReceiveLoop(recv_task, raw))
                         \/ nread = MaxFrames
       /\ TimedOut # {} /\ nread' = nread + 1 /\ lastRead'.kind = "json" =>
              IF ~lastRead'.hasId
              THEN /\ Len(event_queue') = Len(event_queue) + 1
                   /\ event_queue'[Len(event_queue')].seq = nread'
                   /\ SubSeq(event_queue', 1, Len(event_queue)) = event_queue
              ELSE /\ event_queue' = event_queue
                   /\ lastRead'.id \notin DOMAIN pending_commands'
                   /\ \A c \in 1..Len(calls) :
                          /\ lastRead'.id \in DOMAIN pending_commands
                          /\ pending_commands[lastRead'.id] = c
                          /\ Suspended(c)
                          /\ lastRead'.err # "null"
                          => /\ calls'[c].pc = "done"
                             /\ calls'[c].outcome =
                                    (IF lastRead'.err = "absent" THEN "result"
                                     ELSE "CDPProtocolError")
      ]_vars

\* the first command has timed out; the session is still bound, its channel
\* open and its task running, and the second command, made after, got the
\* reply that was read last
C29_Witness ==
    /\ nconn = 1
    /\ Len(calls) = 2
    /\ calls[1].outcome = "CDPConnectionError"
    /\ calls[2].outcome = "result"
    /\ calls[2].elapsed = 0
    /\ lastRead.hasId /\ lastRead.id = calls[2].id
    /\ ws = 1 /\ chan[1] = "open"
    /\ recv_task = 1 /\ recv[1] = "running"
    /\ current_target # NoTarget
    /\ yielded # <<>>

\* C30: once the remote side has closed the channel the receive task has
\* exited without raising, and a send_command made then, before any
\* disconnect(), fails at once with CDPConnectionError.
C30_SendAfterCloseIsConnectionError ==
    [][Len(calls') = Len(calls) + 1 /\ dpc = "idle" /\ chan[ws] = "closed" =>
           /\ recv[ws] = "exited"
           /\ calls'[Len(calls')].pc = "done"
           /\ calls'[Len(calls')].outcome = "CDPConnectionError"]_vars

(***************************************************************************)
(* Progress of send_command.  The event loop runs every callback that is   *)
(* ready: time passes for a call that waits, wait_for's timer fires once   *)
(* its timeout has passed, and the caller resumes in its TimeoutError      *)
(* handler.  Nothing obliges the remote end to send a frame.               *)
(***************************************************************************)
Fairness ==
    /\ WF_vars(Tick)
    /\ \A c \in 1..MaxCalls :
           /\ WF_vars(c <= Len(calls) /\ TimerFire(c))
           /\ WF_vars(c <= Len(calls) /\ TimeoutHandler(c))

\* the session under the frames that decide whether a call ends by its reply:
\* a reply with a result, a reply whose error is no object and text that is
\* no JSON (both end the receive loop); events play no part in it
FairNext ==
    \/ \E target \in Targets : Connect(target)
    \/ DisconnectBegin
    \/ DisconnectJoined
    \/ DisconnectClosed
    \/ SendCommand
    \/ Tick
    \/ \E c \in 1..Len(calls) : TimerFire(c)
    \/ \E c \in 1..Len(calls) : TimeoutHandler(c)
    \/ \E ch \in Channels, raw \in {Garbage} \cup {ResultReply(i, "value") : i \in ReplyIds}
                                  \cup {NullErrorReply(i) : i \in ReplyIds} :
           ReceiveLoop(ch, raw)
    \/ \E ch \in Channels : ChannelClosed(ch)

FairSpec == Init /\ [][FairNext]_vars /\ Fairness

\* C31: every send_command call that has written its message and waits for
\* its reply eventually ends, whatever happens to the receive loop and the
\* session meanwhile.
C31_EveryCallCompletes ==
    \A c \in 1..MaxCalls :
        (c <= Len(calls) /\ calls[c].pc = "wait")
            ~> (c <= Len(calls) /\ calls[c].pc = "done")

\* a call has ended by its timeout on a session that was disconnected while
\* it waited, and whose receive task had been cancelled
C31_Witness ==
    /\ Len(calls) >= 1
    /\ calls[1].outcome = "CDPConnectionError"
    /\ calls[1].fut.state = "cancelled"
    /\ nconn = 1
    /\ ws = None
    /\ recv[1] = "cancelled"
    /\ disconnects >= 1

(***************************************************************************)
(* send_command on a session with no channel.  The call raises at line 154 *)
(* before it assigns anything; `ret` holds what it raised.                 *)
(***************************************************************************)
\* a send_command that allocates its id before it looks at the channel
SendCommandCountsFirst ==
    /\ ws = None
    /\ ret' = Raise("CDPConnectionError")
    /\ message_id < MaxCalls
    /\ message_id' = NextMessageId(message_id)
    /\ UNCHANGED <<ws, recv_task, current_target, pending_commands, event_queue,
                   calls, chan, recv, dpc, nconn, disconnects, nread, lastRead,
                   yielded>>
    /\ UNCHANGED <<arg, wire, restored, network>>
\* lines 153-154
SendCommandNotConnected ==
    /\ ws = None
    /\ ret' = Raise("CDPConnectionError")
    /\ UNCHANGED vars
    /\ UNCHANGED <<arg, wire, restored, network>>

\* a session as constructed, on which send_command may be called at any time
NotConnectedInit ==
    /\ SessionIdle
    /\ NetworkIdle
    /\ arg = "send_command"
    /\ ret = NotReturned
    /\ wire = <<>>
    /\ restored = <<>>

NotConnectedNext == Next \/ SendCommandNotConnected

SpecNotConnected == NotConnectedInit /\ [][NotConnectedNext]_<<vars, aside>>

\* C35: a send_command on a session with no channel (never connected, or
\* disconnected) raises CDPConnectionError at once and changes nothing: the
\* counter is not advanced, no slot is registered and nothing is written; no
\* step of a session without a channel allocates an id, starts a call or
\* registers a slot.
C35_NotConnectedChangesNothing ==
    [][/\ ret' # ret =>
              /\ ws = None
              /\ ret' = Raise("CDPConnectionError")
              /\ UNCHANGED <<message_id, pending_commands, calls, chan>>
              /\ UNCHANGED vars
       /\ ws = None =>
              /\ message_id' = message_id
              /\ Len(calls') = Len(calls)
              /\ DOMAIN pending_commands' \subseteq DOMAIN pending_commands
      ]_<<vars, aside>>

\* a session that was connected, has sent a command and was disconnected has
\* rejected a send_command: the counter stands where the first command left it
C35_Witness ==
    /\ ret = Raise("CDPConnectionError")
    /\ ws = None
    /\ nconn = 1
    /\ disconnects >= 1
    /\ Len(calls) = 1
    /\ message_id = 1
    /\ pending_commands = EmptyMap

\* C36: the request id of a send_command that has finished, with whatever
\* outcome, is no key of the pending table, and every key of the table is the
\* id of a call that is still suspended.
C36_FinishedCallsLeaveNoSlot ==
    /\ \A c \in 1..Len(calls) :
           calls[c].pc = "done" => calls[c].id \notin DOMAIN pending_commands
    /\ \A k \in DOMAIN pending_commands :
           /\ calls[pending_commands[k]].id = k
           /\ calls[pending_commands[k]].pc = "wait"

\* C37: a reply read for a request id that has no slot in the pending table
\* (its send_command has timed out, or the slot was removed otherwise) has no
\* effect: it completes no call, changes no slot, is not put on the event
\* queue and does not stop the receive loop.
C37_LateReplyDiscarded ==
    [][/\ nread' = nread + 1
       /\ lastRead'.kind = "json"
       /\ lastRead'.hasId
       => IF lastRead'.id \notin DOMAIN pending_commands
          THEN UNCHANGED <<calls, pending_commands, event_queue, recv, chan, ws,
                           recv_task, current_target, yielded>>
          \* the timer has fired and the caller has not yet popped its slot
          ELSE Done(calls[pending_commands[lastRead'.id]].fut) =>
                   /\ UNCHANGED <<calls, event_queue, recv, chan, ws, recv_task,
                                  current_target, yielded>>
                   /\ \A k \in DOMAIN pending_commands \ {lastRead'.id} :
                          /\ k \in DOMAIN pending_commands'
                          /\ pending_commands'[k] = pending_commands[k]]_vars

\* the first command has timed out and its reply was read afterwards: no
\* frame has completed its future, and the loop is still running
C37_Witness ==
    /\ Len(calls) = 1
    /\ calls[1].outcome = "CDPConnectionError"
    /\ calls[1].fut.state = "cancelled"
    /\ calls[1].fut.from = NoFrame
    /\ nread = 1
    /\ lastRead.kind = "json" /\ lastRead.hasId /\ lastRead.id = calls[1].id
    /\ pending_commands = EmptyMap
    /\ event_queue = <<>>
    /\ nconn = 1 /\ recv[1] = "running" /\ chan[1] = "open"

\* C38: no step of disconnect() changes the event queue or the request-id
\* counter; and the events are yielded in the order of their arrival, those
\* read before a disconnect() ahead of those read after a later connect().
C38_DisconnectKeepsQueueAndCounter ==
    /\ [][dpc' # dpc \/ disconnects' = disconnects + 1 =>
              UNCHANGED <<event_queue, message_id, yielded>>]_vars
    /\ [](LET feed == yielded \o event_queue
          IN  \A j, k \in 1..Len(feed) : j < k => feed[j].seq < feed[k].seq)

\* disconnect() has returned on a session that had sent a command and read
\* two events nobody has consumed: they are still queued, the counter is at 1
C38_Witness ==
    /\ nconn = 1
    /\ dpc = "idle"
    /\ disconnects = 1
    /\ ws = None
    /\ Len(event_queue) = 2
    /\ event_queue[1].seq < event_queue[2].seq
    /\ yielded = <<>>
    /\ message_id = 1
    /\ pending_commands = EmptyMap

\* the step reads a frame in a receive loop
ReadsFrame == nread' = nread + 1
\* the step fulfils or fails the future of a call
CompletesFuture ==
    \E c \in 1..Len(calls) :
        /\ calls[c].fut.state = "pending"
        /\ calls'[c].fut.state \in {"result", "exception"}

\* C33, as stated: only the receive loop writes the pending table and the
\* event queue: a step that changes the table, completes a future or puts an
\* event on the queue is a step of the receive loop.
C33_ReceiveLoopSoleWriter ==
    [][pending_commands' # pending_commands \/ CompletesFuture
           \/ Len(event_queue') > Len(event_queue)
       => ReadsFrame]_vars

\* C33, amended: only the receive loop fulfils or fails a future and puts an
\* event on the queue, but it is not the only writer of the table:
\* send_command adds the slot of its own id and removes it when it times out,
\* disconnect() clears the table, and nothing else changes it.
C33_ReceiveLoopSoleCompleter ==
    [][/\ CompletesFuture \/ Len(event_queue') > Len(event_queue) => ReadsFrame
       /\ Len(calls') = Len(calls) + 1 =>
              pending_commands' =
                  [k \in DOMAIN pending_commands \cup {message_id'} |->
                      IF k = message_id' THEN Len(calls')
                      ELSE pending_commands[k]]
       /\ pending_commands' # pending_commands =>
              \/ ReadsFrame
                   /\ lastRead'.hasId
                   /\ pending_commands' =
                          [k \in DOMAIN pending_commands \ {lastRead'.id} |->
                              pending_commands[k]]
              \/ Len(calls') = Len(calls) + 1
              \/ \E c \in 1..Len(calls) :
                     /\ calls[c].pc = "wait"
                     /\ calls'[c].outcome = "CDPConnectionError"
                     /\ pending_commands' =
                            [k \in DOMAIN pending_commands \ {calls[c].id} |->
                                pending_commands[k]]
              \/ disconnects' = disconnects + 1 /\ pending_commands' = EmptyMap
      ]_vars

\* one command waits in the slot send_command has registered for it, another
\* has timed out and removed its own, and no frame has been read yet
C33_Witness ==
    /\ nread = 0
    /\ Len(calls) = 2
    /\ calls[1].outcome = "CDPConnectionError"
    /\ calls[2].pc = "wait"
    /\ DOMAIN pending_commands = {calls[2].id}
    /\ event_queue = <<>>

(***************************************************************************)
(* The event feed and its consumers.  Every stream_events() iterator, the  *)
(* one inside get_execution_contexts included, takes its events from the   *)
(* one queue of the session.  Here `opts` maps each iterator that has been *)
(* started to the number of events that had been yielded before it         *)
(* started, `consumed` names for each yielded event the iterator           *)
(* that got it (0 for the iterator of get_execution_contexts), `emitted`   *)
(* is the list get_execution_contexts collects and `net_pc` says where     *)
(* get_execution_contexts stands.                                          *)
(***************************************************************************)
MaxIterators == 2

FeedInit ==
    /\ SessionIdle
    /\ CallIdle
    /\ opts = EmptyMap
    /\ pending_requests = EmptyMap
    /\ consumed = <<>>
    /\ emitted = <<>>
    /\ net_pc = "off"

\* a caller starts to iterate over stream_events()
StartIterator(i) ==
    /\ i \notin DOMAIN opts
    /\ opts' = MapPut(opts, i, Len(yielded))
    /\ UNCHANGED <<pending_requests, consumed, emitted, net_pc, offline, vars>>

\* lines 236-239, for the iterator i
StreamEventsBy(i) ==
    /\ event_queue # <<>>
    /\ yielded' = Append(yielded, QueueGet(event_queue))
    /\ event_queue' = QueueRest(event_queue)
    /\ consumed' = Append(consumed, i)
    /\ UNCHANGED <<ws, recv_task, current_target, message_id, pending_commands, calls,
                   chan, recv, dpc, nconn, disconnects, nread, lastRead>>

\* lines 385-393: the collecting task is created and the caller sleeps
GetExecutionContexts ==
    /\ net_pc = "off"
    /\ net_pc' = "collecting"
    /\ UNCHANGED <<opts, pending_requests, consumed, emitted, offline, vars>>

\* lines 388-390, one iteration of collect_contexts
CollectContexts ==
    /\ net_pc = "collecting"
    /\ StreamEventsBy(0)
    /\ emitted' = IF QueueGet(event_queue).method = "Runtime.executionContextCreated"
                  THEN Append(emitted, QueueGet(event_queue))
                  ELSE emitted
    /\ UNCHANGED <<opts, pending_requests, net_pc, offline>>

\* lines 394-398: the sleep is over, the task is cancelled and joined
CollectCancelled ==
    /\ net_pc = "collecting"
    /\ net_pc' = "done"
    /\ UNCHANGED <<opts, pending_requests, consumed, emitted, offline, vars>>

FeedNext ==
    \/ \E target \in Targets : Connect(target)
    \/ \E ch \in Channels, method \in {"Runtime.consoleAPICalled",
                                        "Runtime.executionContextCreated"} :
           ReceiveLoop(ch, Event(method))
    \/ \E i \in 1..MaxIterators : StartIterator(i)
    \/ \E i \in DOMAIN opts :
           /\ StreamEventsBy(i)
           /\ UNCHANGED <<opts, pending_requests, emitted, net_pc, offline>>
    \/ GetExecutionContexts
    \/ CollectContexts
    \/ CollectCancelled

SpecFeed == FeedInit /\ [][FeedNext]_<<vars, aside>>

\* C32: each event the receive loop has enqueued is yielded at most once in
\* total over all the iterators, and an event that one iterator has taken is
\* no longer in the queue for another, whenever that other was started.
C32_YieldedAtMostOnce ==
    /\ Len(consumed) = Len(yielded)
    /\ \A j, k \in 1..Len(yielded) : j # k => yielded[j].seq # yielded[k].seq
    /\ \A j \in 1..Len(yielded), k \in 1..Len(event_queue) :
           yielded[j].seq # event_queue[k].seq
    /\ Len(yielded) + Len(event_queue) = nread
    /\ \A k \in 1..Len(consumed) :
           consumed[k] \in DOMAIN opts => k > opts[consumed[k]]

\* two iterators have shared two of three events between them, the second
\* one started after the first had taken its event
C32_Witness ==
    /\ DOMAIN opts = {1, 2}
    /\ opts[1] = 0
    /\ opts[2] = 1
    /\ consumed = <<1, 2>>
    /\ yielded[1].seq = 1
    /\ yielded[2].seq = 2
    /\ Len(event_queue) = 1
    /\ net_pc = "off"

\* C39: get_execution_contexts takes only executionContextCreated events off
\* the feed: every event its iterator has dequeued is one of them, so every
\* other event stays in the queue for a later consumer.
C39_CollectorTakesOnlyContexts ==
    \A k \in 1..Len(consumed) :
        consumed[k] = 0 => yielded[k].method = "Runtime.executionContextCreated"

\* the requestIds whose last recorded request has had no failure and no
\* filter-passing response since
LiveRequests == {id \in {"R1", "R2"} : LastRecorded(id) # 0}
\* every key of the table holds what the last recorded request of its id gave
HoldsLastHop ==
    \A id \in DOMAIN pending_requests \cap LiveRequests :
        LET params == consumed[LastRecorded(id)]
        IN  pending_requests[id] =
                [url |-> params.url, method |-> params.httpMethod,
                 type |-> params.type, frame_id |-> params.frameId]

\* C40 as stated: at every point the keys of the pending table are exactly the
\* requestIds of recorded requests that have had no failure and no
\* filter-passing response since they were last recorded.
C40_KeysAreLiveRequests ==
    DOMAIN pending_requests = LiveRequests

\* C40: the pending table holds one entry per requestId, the entry of the
\* last recorded request of that id.  Whenever the generator is about to take
\* its next event the keys are exactly the requestIds recorded and neither
\* failed nor answered by a filter-passing response since; while the
\* generator is suspended at the yield of a response event, the entry of that
\* response's requestId may still be there, and it goes when the generator is
\* resumed.  A failure reports the url and method of the last hop.
C40_KeysAreLiveRequestsBetweenEvents ==
    /\ [](/\ HoldsLastHop
          /\ net_pc = "next" => DOMAIN pending_requests = LiveRequests
          /\ net_pc = "yielded" =>
                 /\ LiveRequests \subseteq DOMAIN pending_requests
                 /\ DOMAIN pending_requests \subseteq
                        LiveRequests \cup {consumed[Len(consumed)].requestId})
    /\ [][\A params \in Failures :
              /\ Takes(params)
              /\ params.requestId \in DOMAIN pending_requests
              /\ Len(emitted') = Len(emitted) + 1
              => /\ emitted'[Len(emitted')].url =
                        consumed[LastRecorded(params.requestId)].url
                 /\ emitted'[Len(emitted')].method =
                        consumed[LastRecorded(params.requestId)].httpMethod
       ]_network

\* R2 was requested with U1 and again, as a redirect hop, with U2; its entry
\* holds U2, next to the entry of a request R1
C40_Witness ==
    /\ Len(consumed) = 3
    /\ IsRequest(consumed[1]) /\ consumed[1].url = "U1"
    /\ consumed[1].requestId = "R2"
    /\ IsRequest(consumed[2]) /\ consumed[2].url = "U2"
    /\ consumed[2].requestId = "R2"
    /\ IsRequest(consumed[3]) /\ consumed[3].requestId = "R1"
    /\ DOMAIN pending_requests = {"R1", "R2"}
    /\ pending_requests["R2"].url = "U2"
    /\ net_pc = "next"

(***************************************************************************)
(* stream_logs: the events of stream_events, normalized one at a time.     *)
(* Here `opts` is the target_info of line 245, `consumed` the raw events   *)
(* taken so far, `emitted` the LogEvents yielded and `net_pc` says whether *)
(* the generator is still running ("next") or has ended with the exception *)
(* a normalization raised ("raised").                                      *)
(***************************************************************************)
MaxLogs == 3

RawEvent(method, params) == [method |-> method, params |-> params]
LogMethods == {"Runtime.consoleAPICalled", "Runtime.exceptionThrown", "Log.entryAdded"}

\* the raw events the browser sends: console calls, exceptions, browser log
\* entries of every level, each kind also with a null where a dict or a list
\* is expected, and an event of another domain
LogRecords ==
    {RawEvent("Runtime.consoleAPICalled", e) : e \in
        {c \in ConsoleEvents :
             /\ c.val.type \in {Str("log"), Str("error")}
             /\ c.val.args \in {PyNone,
                                List(<<RemoteObject(Str("string"), Str("a"), Missing)>>)}
             /\ c.val.stackTrace = Missing
             /\ c.val.timestamp = Missing
             /\ c.val.executionContextId = Missing}}
    \cup {RawEvent("Runtime.exceptionThrown", e) : e \in
        {x \in ExceptionEvents :
             /\ x.val.timestamp = Missing
             /\ x.val.exceptionDetails.tag = "dict" =>
                    /\ x.val.exceptionDetails.val.exception \in
                           {PyNone, Dict([description |-> Str("Error: x"),
                                          value |-> Missing])}
                    /\ x.val.exceptionDetails.val.stackTrace = Missing
                    /\ x.val.exceptionDetails.val.executionContextId = Missing}}
    \cup {RawEvent("Log.entryAdded", e) : e \in
        {l \in LogEntryEvents :
             l.val.entry.tag = "dict" =>
                 /\ l.val.entry.val.text = Str("t")
                 /\ l.val.entry.val.url = Missing
                 /\ l.val.entry.val.lineNumber = Missing
                 /\ l.val.entry.val.timestamp = Missing
                 /\ l.val.entry.val.stackTrace = Missing}}
    \cup {RawEvent("Page.loadEventFired", Empty({}))}

\* stream_logs() is called
StreamLogsInit ==
    /\ SessionIdle
    /\ CallIdle
    /\ opts \in TargetInfos
    /\ pending_requests = EmptyMap
    /\ consumed = <<>>
    /\ emitted = <<>>
    /\ net_pc = "next"

\* lines 253-258: the constructor the method selects, None for another method
Normalization(event, target_info) ==
    CASE event.method = "Runtime.consoleAPICalled" ->
             from_console_api_called(event.params, target_info, Now)
      [] event.method = "Runtime.exceptionThrown" ->
             from_exception_thrown(event.params, target_info, Now)
      [] event.method = "Log.entryAdded" ->
             from_log_entry_added(event.params, target_info, Now)
      [] OTHER -> Return(PyNone)

\* lines 247-261, one turn of the loop; a LogEvent is always true, and an
\* exception a constructor raises leaves the generator
StreamLogs(event) ==
    /\ net_pc = "next"
    /\ Len(consumed) < MaxLogs
    /\ consumed' = Append(consumed, event)
    /\ LET log_event == Normalization(event, opts)
       IN  IF log_event.outcome # "return"
           THEN net_pc' = "raised" /\ UNCHANGED emitted
           ELSE IF event.method \in LogMethods
           THEN emitted' = Append(emitted, log_event.value) /\ UNCHANGED net_pc
           ELSE UNCHANGED <<emitted, net_pc>>
    /\ UNCHANGED <<opts, pending_requests, offline, vars>>

StreamLogsNext == \E event \in LogRecords : StreamLogs(event)

SpecStreamLogs == StreamLogsInit /\ [][StreamLogsNext]_<<vars, aside>>

IsLogRecord(event) == event.method \in LogMethods
\* the level and kind the LogEvent of a raw event is to have
LevelOfEntry(params) ==
    LET level == IF params.val.entry.tag = "dict"
                 THEN params.val.entry.val.level ELSE Missing
    IN  IF level = Str("verbose") THEN "LogLevel.DEBUG"
        ELSE IF level = Str("warning") THEN "LogLevel.WARN"
        ELSE IF level = Str("error") THEN "LogLevel.ERROR"
        ELSE "LogLevel.INFO"
\* the LogEvents yielded are those of the first log records taken, in order
YieldedInOrder(logs) ==
    /\ Len(emitted) <= Len(logs)
    /\ \A k \in 1..Len(emitted) :
           CASE logs[k].method = "Runtime.exceptionThrown" ->
                    /\ emitted[k].kind = "LogKind.EXCEPTION"
                    /\ emitted[k].level = "LogLevel.ERROR"
             [] logs[k].method = "Log.entryAdded" ->
                    /\ emitted[k].kind = "LogKind.BROWSER_LOG"
                    /\ emitted[k].level = LevelOfEntry(logs[k].params)
             [] OTHER -> emitted[k].kind = "LogKind.CONSOLE"

\* C34: stream_logs has yielded exactly one LogEvent for each event taken whose
\* method is consoleAPICalled, exceptionThrown or entryAdded, in the order
\* taken, and nothing for any other event; an exception has level error and
\* kind exception, a browser log entry kind browser_log and the level its
\* own level maps to (verbose to debug, warning to warn, error to error, info
\* and anything else to info).
C34_OneLogEventPerLogRecord ==
    /\ Len(emitted) = Len(SelectSeq(consumed, IsLogRecord))
    /\ YieldedInOrder(SelectSeq(consumed, IsLogRecord))

\* what the generator does keep to: as long as no constructor has raised,
\* the LogEvents yielded are one per log record, and after a raise they are
\* those of the log records before the one that raised
StreamLogsUntilRaise ==
    /\ YieldedInOrder(SelectSeq(consumed, IsLogRecord))
    /\ net_pc = "next" => Len(emitted) = Len(SelectSeq(consumed, IsLogRecord))
    /\ net_pc = "raised" => Len(emitted) = Len(SelectSeq(consumed, IsLogRecord)) - 1

====
